---- MODULE Spec2Model ----
(***************************************************************************)
(* Theme controller and filter editor of leaflet-theme-control.            *)
(*                                                                         *)
(* Strings that the program builds or parses (CSS filter chains) are       *)
(* sequences of one-character strings.  Numbers are fixed-point integers   *)
(* in thousandths (1000 is the JavaScript number 1, 500 is 0.5, 180000 is  *)
(* 180).  A filter field that holds no number is UndefNum (JavaScript      *)
(* undefined) or NaNNum (NaN); a string-valued field that is not set is    *)
(* StrUndefined.                                                           *)
(***************************************************************************)
EXTENDS Integers, Sequences, FiniteSets, TLC

Null == "<null>"
Undefined == "<undefined>"
UndefNum == 0 - 1
NaNNum == 0 - 2
StrUndefined == <<"<undefined>">>
NoMatch == <<"<null>">>

(***************************************************************************)
(* Characters and string literals                                          *)
(***************************************************************************)
Digits == <<"0", "1", "2", "3", "4", "5", "6", "7", "8", "9">>
DigitSet == {Digits[i] : i \in 1..10}
DigDot == DigitSet \cup {"."}

DigitChar(d) == Digits[d + 1]
DigitVal(c) == CHOOSE d \in 0..9 : Digits[d + 1] = c

sInvert == <<"i", "n", "v", "e", "r", "t">>
sHueRotate == <<"h", "u", "e", "-", "r", "o", "t", "a", "t", "e">>
sSaturate == <<"s", "a", "t", "u", "r", "a", "t", "e">>
sBrightness == <<"b", "r", "i", "g", "h", "t", "n", "e", "s", "s">>
sContrast == <<"c", "o", "n", "t", "r", "a", "s", "t">>
sSepia == <<"s", "e", "p", "i", "a">>
sGrayscale == <<"g", "r", "a", "y", "s", "c", "a", "l", "e">>
sDeg == <<"d", "e", "g">>
sUndefined == <<"u", "n", "d", "e", "f", "i", "n", "e", "d">>
sNaN == <<"N", "a", "N">>
sOpen == <<"(">>
sClose == <<")">>
sSpace == <<" ">>
sEmpty == <<>>

FilterKeys == <<"invert", "hueRotate", "saturate", "brightness", "contrast", "sepia", "grayscale">>
FilterKeySet == {FilterKeys[i] : i \in 1..7}

(***************************************************************************)
(* JavaScript number <-> string                                            *)
(***************************************************************************)
RECURSIVE IntStr(_)
IntStr(n) == IF n < 10 THEN <<DigitChar(n)>> ELSE IntStr(n \div 10) \o <<DigitChar(n % 10)>>

\* String(x) for a non-negative number x (thousandths): shortest decimal form.
NumStr(n) ==
  LET fr == n % 1000
      d1 == fr \div 100
      d2 == (fr \div 10) % 10
      d3 == fr % 10
  IN IntStr(n \div 1000) \o
     (IF fr = 0 THEN <<>>
      ELSE <<".", DigitChar(d1)>> \o
           (IF d2 = 0 /\ d3 = 0 THEN <<>>
            ELSE <<DigitChar(d2)>> \o (IF d3 = 0 THEN <<>> ELSE <<DigitChar(d3)>>)))

\* Template-literal interpolation `${x}`.
ToStr(x) == IF x = UndefNum THEN sUndefined ELSE IF x = NaNNum THEN sNaN ELSE NumStr(x)

\* Length of the longest run of characters of set cs starting at s[i].
RunLen(s, i, cs) ==
  CHOOSE n \in 0..(Len(s) - i + 1) :
    /\ \A j \in 0..(n - 1) : s[i + j] \in cs
    /\ (i + n > Len(s) \/ s[i + n] \notin cs)

RECURSIVE DigitsVal(_)
DigitsVal(ds) == IF ds = <<>> THEN 0 ELSE DigitsVal(SubSeq(ds, 1, Len(ds) - 1)) * 10 + DigitVal(ds[Len(ds)])

\* parseFloat on a string of digits and dots: integer part, optional fraction,
\* stops at a second dot; NaN when there is no digit at all.  Fraction digits
\* beyond the third are dropped (the precision of the fixed-point numbers).
\* parseFloat that stops at the decimal point.
parseFloat_Trunc(s) ==
  LET il == RunLen(s, 1, DigitSet)
  IN IF il = 0 THEN NaNNum ELSE DigitsVal(SubSeq(s, 1, il)) * 1000

parseFloat(s) ==
  LET il == RunLen(s, 1, DigitSet)
      hasDot == il + 1 <= Len(s) /\ s[il + 1] = "."
      fl == IF hasDot THEN RunLen(s, il + 2, DigitSet) ELSE 0
      fd == [k \in 1..3 |-> IF k <= fl THEN DigitVal(s[il + 1 + k]) ELSE 0]
  IN IF il = 0 /\ fl = 0 THEN NaNNum
     ELSE DigitsVal(SubSeq(s, 1, il)) * 1000 + fd[1] * 100 + fd[2] * 10 + fd[3]

(***************************************************************************)
(* Regular expressions  name\(([\d.]+)suffix                               *)
(***************************************************************************)
LitAt(s, lit, i) ==
  /\ i + Len(lit) - 1 <= Len(s)
  /\ \A j \in 1..Len(lit) : s[i + j - 1] = lit[j]

\* Whether the pattern matches with the function name starting at s[i].
ReMatchAt(s, name, suffix, i) ==
  /\ LitAt(s, name \o sOpen, i)
  /\ LET a == i + Len(name) + 1
         n == RunLen(s, a, DigDot)
     IN n >= 1 /\ LitAt(s, suffix, a + n)

\* String.prototype.match(/name\(([\d.]+)suffix/): capture group 1 of the
\* leftmost match, or NoMatch (null).
ReMatch(s, name, suffix) ==
  LET hits == {i \in 1..Len(s) : s[i] = name[1] /\ ReMatchAt(s, name, suffix, i)}
  IN IF hits = {} THEN NoMatch
     ELSE LET i == CHOOSE h \in hits : \A g \in hits : h <= g
              a == i + Len(name) + 1
          IN SubSeq(s, a, a + RunLen(s, a, DigDot) - 1)

(***************************************************************************)
(* Filter codec (ThemeEditor._buildFilterString / _parseFilterString)      *)
(***************************************************************************)
\* x > 0 in JavaScript: false for undefined and NaN (both negative here).
JsGt0(x) == x > 0
\* x !== c in JavaScript: true for undefined and NaN.
JsNe(x, c) == x # c

Token(name, x, suffix) == name \o sOpen \o ToStr(x) \o suffix

RECURSIVE Join(_)
Join(parts) ==
  IF parts = <<>> THEN <<>>
  ELSE IF Len(parts) = 1 THEN parts[1]
  ELSE parts[1] \o sSpace \o Join(Tail(parts))

\* buildParts that pushes the multiplicative functions without comparing them
\* with 1.
buildParts_NoIdentityCheck(values) ==
  (IF JsGt0(values.invert) THEN <<Token(sInvert, values.invert, sClose)>> ELSE <<>>) \o
  (IF JsNe(values.hueRotate, 0) THEN <<Token(sHueRotate, values.hueRotate, sDeg \o sClose)>> ELSE <<>>) \o
  <<Token(sSaturate, values.saturate, sClose)>> \o
  <<Token(sBrightness, values.brightness, sClose)>> \o
  <<Token(sContrast, values.contrast, sClose)>> \o
  (IF JsGt0(values.sepia) THEN <<Token(sSepia, values.sepia, sClose)>> ELSE <<>>) \o
  (IF JsGt0(values.grayscale) THEN <<Token(sGrayscale, values.grayscale, sClose)>> ELSE <<>>)

buildParts(values) ==
  (IF JsGt0(values.invert) THEN <<Token(sInvert, values.invert, sClose)>> ELSE <<>>) \o
  (IF JsNe(values.hueRotate, 0) THEN <<Token(sHueRotate, values.hueRotate, sDeg \o sClose)>> ELSE <<>>) \o
  (IF JsNe(values.saturate, 1000) THEN <<Token(sSaturate, values.saturate, sClose)>> ELSE <<>>) \o
  (IF JsNe(values.brightness, 1000) THEN <<Token(sBrightness, values.brightness, sClose)>> ELSE <<>>) \o
  (IF JsNe(values.contrast, 1000) THEN <<Token(sContrast, values.contrast, sClose)>> ELSE <<>>) \o
  (IF JsGt0(values.sepia) THEN <<Token(sSepia, values.sepia, sClose)>> ELSE <<>>) \o
  (IF JsGt0(values.grayscale) THEN <<Token(sGrayscale, values.grayscale, sClose)>> ELSE <<>>)

buildFilterString(values) == Join(buildParts(values))

IdentityValues ==
  [invert |-> 0, hueRotate |-> 0, saturate |-> 1000, brightness |-> 1000,
   contrast |-> 1000, sepia |-> 0, grayscale |-> 0]

parseField(filterString, name, suffix, dflt) ==
  LET m == ReMatch(filterString, name, suffix)
  IN IF m = NoMatch THEN dflt ELSE parseFloat(m)

\* A falsy filter (undefined or the empty string) parses to the identity.
parseFilterString(filterString) ==
  IF filterString = StrUndefined \/ filterString = <<>> THEN IdentityValues
  ELSE [invert |-> parseField(filterString, sInvert, sClose, 0),
        hueRotate |-> parseField(filterString, sHueRotate, sDeg \o sClose, 0),
        saturate |-> parseField(filterString, sSaturate, sClose, 1000),
        brightness |-> parseField(filterString, sBrightness, sClose, 1000),
        contrast |-> parseField(filterString, sContrast, sClose, 1000),
        sepia |-> parseField(filterString, sSepia, sClose, 0),
        grayscale |-> parseField(filterString, sGrayscale, sClose, 0)]

(***************************************************************************)
(* Built-in presets (DEFAULT_THEMES) and the page the control lives in     *)
(***************************************************************************)
Theme(label, filter, icon, controlStyle, className, applyToSelectors) ==
  [label |-> label, filter |-> filter, icon |-> icon, controlStyle |-> controlStyle,
   className |-> className, applyToSelectors |-> applyToSelectors]

\* 'invert(1) hue-rotate(180deg) saturate(0.6) brightness(0.5)'
fDark ==
  <<"i", "n", "v", "e", "r", "t", "(", "1", ")", " ", "h", "u", "e", "-",
    "r", "o", "t", "a", "t", "e", "(", "1", "8", "0", "d", "e", "g", ")",
    " ", "s", "a", "t", "u", "r", "a", "t", "e", "(", "0", ".", "6", ")",
    " ", "b", "r", "i", "g", "h", "t", "n", "e", "s", "s", "(", "0", ".",
    "5", ")">>
\* 'grayscale(1)'
fGrayscale ==
  <<"g", "r", "a", "y", "s", "c", "a", "l", "e", "(", "1", ")">>
\* 'invert(1) hue-rotate(180deg) saturate(1) brightness(1) contrast(1) sepia(0.5) grayscale(0.5)'
fCustom ==
  <<"i", "n", "v", "e", "r", "t", "(", "1", ")", " ", "h", "u", "e", "-",
    "r", "o", "t", "a", "t", "e", "(", "1", "8", "0", "d", "e", "g", ")",
    " ", "s", "a", "t", "u", "r", "a", "t", "e", "(", "1", ")", " ", "b",
    "r", "i", "g", "h", "t", "n", "e", "s", "s", "(", "1", ")", " ", "c",
    "o", "n", "t", "r", "a", "s", "t", "(", "1", ")", " ", "s", "e", "p",
    "i", "a", "(", "0", ".", "5", ")", " ", "g", "r", "a", "y", "s", "c",
    "a", "l", "e", "(", "0", ".", "5", ")">>
BuiltinKeys == <<"light", "dark", "grayscale", "custom">>
BuiltinKeySet == {"light", "dark", "grayscale", "custom"}

DEFAULT_THEMES ==
  [light |-> Theme("Light", <<>>, "sun", "light", "theme-light", {}),
   dark |-> Theme("Dark", fDark, "moon", "dark", "theme-dark", {}),
   grayscale |-> Theme("Grayscale", fGrayscale, "circle", "light", "theme-grayscale", {}),
   custom |-> Theme("Custom", fCustom, "palette", "dark", "theme-custom", {})]

AllKeys == {"light", "dark", "grayscale", "custom", "night"}
KeyOrder == <<"light", "dark", "grayscale", "custom", "night">>
\* A key no registry of the model holds.
AbsentKey == "bogus"

\* Elements of the page and the selectors that match them.  The primary
\* selector is options.cssSelector ('.leaflet-tile-pane').
Elements == {"tile", "both", "side", "legend"}
cssSelector == ".leaflet-tile-pane"
Matches(selector) ==
  CASE selector = cssSelector -> {"tile", "both"}
    [] selector = ".side" -> {"side", "both"}
    [] selector = ".legend" -> {"legend"}
    [] OTHER -> {}

(***************************************************************************)
(* Caller-supplied `themes` options.  ref[k] names the built-in object the *)
(* caller's map reuses for key k (as {...DEFAULT_THEMES, dark: {...}} does *)
(* for every key but dark), or Null for an object of the caller's own.     *)
(***************************************************************************)
\* 'invert(1) hue-rotate(200deg)'
fDark200 ==
  <<"i", "n", "v", "e", "r", "t", "(", "1", ")", " ", "h", "u", "e", "-",
    "r", "o", "t", "a", "t", "e", "(", "2", "0", "0", "d", "e", "g", ")">>
\* 'invert(1)'
fNight ==
  <<"i", "n", "v", "e", "r", "t", "(", "1", ")">>
\* 'sepia(0.5)'
fSepia ==
  <<"s", "e", "p", "i", "a", "(", "0", ".", "5", ")">>
ThemeOptions == {"none", "spread", "own", "empty"}

UserThemes(topt, bi) ==
  CASE topt = "spread" ->
         [keys |-> BuiltinKeys,
          obj |-> [k \in BuiltinKeySet |->
                     IF k = "dark" THEN [bi["dark"] EXCEPT !.filter = fDark200] ELSE bi[k]],
          ref |-> [k \in BuiltinKeySet |-> IF k = "dark" THEN Null ELSE k]]
    [] topt = "own" ->
         [keys |-> <<"light", "night", "custom">>,
          obj |-> [k \in {"light", "night", "custom"} |->
                     CASE k = "light" -> Theme("Light", <<>>, Undefined, Undefined, Undefined, {})
                       [] k = "night" -> Theme("Night", fNight, "moon", "dark", "theme-night", {".side"})
                       [] OTHER -> Theme("My Custom", fSepia, Undefined, "light", Undefined, {".legend"})],
          ref |-> [k \in {"light", "night", "custom"} |-> Null]]
    [] OTHER ->
         [keys |-> <<>>, obj |-> [k \in {} |-> DEFAULT_THEMES.light], ref |-> [k \in {} |-> Null]]

(***************************************************************************)
(* State                                                                   *)
(***************************************************************************)
VARIABLES
  storedTheme,       \* localStorage[storageKey]: a key or Null
  storedFilters,     \* localStorage[storageKey + '-custom-filters']
  sysDark,           \* matchMedia('(prefers-color-scheme: dark)').matches
  builtins,          \* the DEFAULT_THEMES objects
  rootDataTheme,     \* <html data-theme>
  rootControlStyle,  \* <html data-control-style>
  rootClasses,       \* <html class>
  containerClasses,  \* classes of the map's .leaflet-control-container
  elFilter,          \* style.filter of every element
  phase,             \* "boot" | "active" | "failed" (the constructor threw)
  options,           \* this.options without themes
  themeKeys,         \* Object.keys(this.options.themes)
  themes,            \* this.options.themes
  alias,             \* which registry objects are built-in objects
  savedTheme,        \* this.savedTheme
  prefersDark,       \* this.prefersDark
  currentTheme,      \* this.currentTheme
  listening,         \* the media-query listener is attached and not aborted
  button,            \* this.button: Null or its label and icon
  onMap,             \* this.map is set
  originalThemes,    \* this.originalThemes
  ed,                \* the ThemeEditor
  cbLog,             \* options.onChange calls of the last operation
  setLog,            \* keys setTheme accepted during the last operation
  threw,             \* the last operation raised an exception
  warned,            \* the last operation logged a warning
  lastOp,            \* the last operation and its argument
  lastSet,           \* the key of the latest accepted setTheme of any session, or Null
  session,           \* page loads so far
  edits,             \* editor interactions and direct assignments of all sessions
  cPc, cValues, cString, cParsed   \* the codec applied to one input

env == <<storedTheme, storedFilters, sysDark, builtins>>
dom == <<rootDataTheme, rootControlStyle, rootClasses, containerClasses, elFilter>>
ctl == <<phase, options, themeKeys, themes, alias, savedTheme, prefersDark, currentTheme,
         listening, button, onMap, originalThemes>>
obs == <<cbLog, setLog, threw, warned, lastOp, lastSet>>
cnt == <<session, edits>>
codec == <<cPc, cValues, cString, cParsed>>
vars == <<env, dom, ctl, ed, obs, cnt, codec>>

(***************************************************************************)
(* Bounds                                                                  *)
(***************************************************************************)
MaxSessions == 2
MaxEdits == 2
CodecGrid == 2

(***************************************************************************)
(* Override records and the editor object                                  *)
(***************************************************************************)
\* customFilters[k]: kind "none" when the map has no entry for k, "null" for
\* a JSON null entry, "rec" for an object; a field the object lacks is
\* UndefNum (Undefined for controlStyle).
OverrideRec(kind, v, controlStyle) ==
  [kind |-> kind, invert |-> v.invert, hueRotate |-> v.hueRotate, saturate |-> v.saturate,
   brightness |-> v.brightness, contrast |-> v.contrast, sepia |-> v.sepia,
   grayscale |-> v.grayscale, controlStyle |-> controlStyle]
NoValues == [k \in FilterKeySet |-> UndefNum]
NoRec == OverrideRec("none", NoValues, Undefined)
NullRec == OverrideRec("null", NoValues, Undefined)
ValuesOf(r) == [k \in FilterKeySet |-> r[k]]
EmptyFilters == [k \in AllKeys |-> NoRec]

\* The content of the override entry of localStorage.
AbsentStore == [kind |-> "absent", map |-> EmptyFilters]
MapStore(m) == [kind |-> "map", map |-> m]

NoButton == [present |-> FALSE, label |-> "", icon |-> ""]

NoEditor ==
  [exists |-> FALSE, themeControl |-> FALSE, panel |-> FALSE, inDom |-> FALSE,
   display |-> "none", isOpen |-> FALSE, currentView |-> "selector", editingTheme |-> Null,
   customFilters |-> EmptyFilters, cfNull |-> FALSE, onKeyDown |-> FALSE,
   keyListener |-> FALSE, content |-> "none", contentKey |-> Null,
   curValues |-> NoValues, curStyle |-> Undefined, shown |-> NoValues,
   shownStyle |-> Undefined, timers |-> {}, focus |-> "none", badges |-> {}]

NoOptions ==
  [defaultTheme |-> "light", detectSystemTheme |-> FALSE, enableEditor |-> FALSE,
   addButton |-> FALSE, onChange |-> FALSE, themes |-> "none"]

EmptyRegistry == [k \in {} |-> DEFAULT_THEMES.light]
NoAlias == [k \in {} |-> Null]

(***************************************************************************)
(* The state as one record: the handlers below are functions on it.        *)
(***************************************************************************)
Cur ==
  [storedTheme |-> storedTheme, storedFilters |-> storedFilters, sysDark |-> sysDark,
   builtins |-> builtins, rootDataTheme |-> rootDataTheme,
   rootControlStyle |-> rootControlStyle, rootClasses |-> rootClasses,
   containerClasses |-> containerClasses, elFilter |-> elFilter, phase |-> phase,
   options |-> options, themeKeys |-> themeKeys, themes |-> themes, alias |-> alias,
   savedTheme |-> savedTheme, prefersDark |-> prefersDark, currentTheme |-> currentTheme,
   listening |-> listening, button |-> button, onMap |-> onMap,
   originalThemes |-> originalThemes, ed |-> ed,
   cbLog |-> <<>>, setLog |-> <<>>, threw |-> FALSE, warned |-> FALSE]

Commit(S) ==
  /\ storedTheme' = S.storedTheme
  /\ storedFilters' = S.storedFilters
  /\ sysDark' = S.sysDark
  /\ builtins' = S.builtins
  /\ rootDataTheme' = S.rootDataTheme
  /\ rootControlStyle' = S.rootControlStyle
  /\ rootClasses' = S.rootClasses
  /\ containerClasses' = S.containerClasses
  /\ elFilter' = S.elFilter
  /\ phase' = S.phase
  /\ options' = S.options
  /\ themeKeys' = S.themeKeys
  /\ themes' = S.themes
  /\ alias' = S.alias
  /\ savedTheme' = S.savedTheme
  /\ prefersDark' = S.prefersDark
  /\ currentTheme' = S.currentTheme
  /\ listening' = S.listening
  /\ button' = S.button
  /\ onMap' = S.onMap
  /\ originalThemes' = S.originalThemes
  /\ ed' = S.ed
  /\ cbLog' = S.cbLog
  /\ setLog' = S.setLog
  /\ lastSet' = IF S.setLog = <<>> THEN lastSet ELSE S.setLog[Len(S.setLog)]
  /\ threw' = S.threw
  /\ warned' = S.warned

\* JavaScript truthiness of a string-valued field.
TruthyStr(x) == x # StrUndefined /\ x # <<>>
TruthyName(x) == x # Undefined /\ x # Null /\ x # ""

\* themes[k].filter = f and themes[k].controlStyle = cs through the object
\* reference: the write lands in the built-in object when the registry entry
\* is that object.
writeTheme(S, k, f, cs) ==
  [S EXCEPT !.themes = [@ EXCEPT ![k] = [@ EXCEPT !.filter = f, !.controlStyle = cs]],
            !.builtins = IF S.alias[k] = Null THEN @
                         ELSE [@ EXCEPT ![S.alias[k]] = [@ EXCEPT !.filter = f, !.controlStyle = cs]]]

(***************************************************************************)
(* ThemeControl._applyTheme, _updateButton, setTheme, _cycleTheme          *)
(***************************************************************************)
themeClasses(th) == {th[k].className : k \in {j \in DOMAIN th : TruthyName(th[j].className)}}

\* _applyTheme without the loop that removes every theme's class.
classesAfter_NoRemove(classes, th, themeKey) ==
  classes \cup (IF TruthyName(th[themeKey].className) THEN {th[themeKey].className} ELSE {})

classesAfter(classes, th, themeKey) ==
  (classes \ themeClasses(th)) \cup
  (IF TruthyName(th[themeKey].className) THEN {th[themeKey].className} ELSE {})

allSelectors(th) == UNION {th[k].applyToSelectors : k \in DOMAIN th}
matchedBy(selectors) == UNION {Matches(sel) : sel \in selectors}

\* _applyTheme without the loop that clears the filters of every theme's
\* additional selectors.
filtersAfter_NoClear(ef, th, themeKey) ==
  LET theme == th[themeKey]
      primary == [e \in Elements |->
                    IF e \in Matches(cssSelector)
                    THEN (IF TruthyStr(theme.filter) THEN theme.filter ELSE <<>>)
                    ELSE ef[e]]
  IN [e \in Elements |->
        IF e \in matchedBy(theme.applyToSelectors) /\ TruthyStr(theme.filter)
        THEN theme.filter ELSE primary[e]]

filtersAfter(ef, th, themeKey) ==
  LET theme == th[themeKey]
      primary == [e \in Elements |->
                    IF e \in Matches(cssSelector)
                    THEN (IF TruthyStr(theme.filter) THEN theme.filter ELSE <<>>)
                    ELSE ef[e]]
      cleared == [e \in Elements |->
                    IF e \in matchedBy(allSelectors(th)) THEN <<>> ELSE primary[e]]
  IN [e \in Elements |->
        IF e \in matchedBy(theme.applyToSelectors) /\ TruthyStr(theme.filter)
        THEN theme.filter ELSE cleared[e]]

\* An onChange call: the key and the registry entry passed as the theme.
Call(themeKey, entry) == [key |-> themeKey, theme |-> entry]
fireOnChange(S, themeKey, entry) ==
  IF S.options.onChange THEN [S EXCEPT !.cbLog = Append(@, Call(themeKey, entry))] ELSE S

\* _applyTheme without the localStorage.setItem of its last lines.
applyTheme_NoSave(S, themeKey, save) ==
  IF themeKey \notin DOMAIN S.themes
  THEN [S EXCEPT !.rootDataTheme = themeKey, !.threw = TRUE]
  ELSE LET theme == S.themes[themeKey]
           S1 == [S EXCEPT
                    !.rootDataTheme = themeKey,
                    !.rootControlStyle =
                       IF TruthyName(theme.controlStyle) THEN theme.controlStyle ELSE "light",
                    !.rootClasses = classesAfter(@, S.themes, themeKey),
                    !.containerClasses =
                       IF S.onMap THEN classesAfter(@, S.themes, themeKey) ELSE @,
                    !.elFilter = filtersAfter(@, S.themes, themeKey)]
       IN fireOnChange(S1, themeKey, themeKey)

applyTheme(S, themeKey, save) ==
  IF themeKey \notin DOMAIN S.themes
  THEN \* theme is undefined: data-theme is set, then theme.controlStyle throws
       [S EXCEPT !.rootDataTheme = themeKey, !.threw = TRUE]
  ELSE LET theme == S.themes[themeKey]
           S1 == [S EXCEPT
                    !.rootDataTheme = themeKey,
                    !.rootControlStyle =
                       IF TruthyName(theme.controlStyle) THEN theme.controlStyle ELSE "light",
                    !.rootClasses = classesAfter(@, S.themes, themeKey),
                    !.containerClasses =
                       IF S.onMap THEN classesAfter(@, S.themes, themeKey) ELSE @,
                    !.elFilter = filtersAfter(@, S.themes, themeKey),
                    !.storedTheme = IF save THEN themeKey ELSE @]
       IN fireOnChange(S1, themeKey, themeKey)

getThemeLabel(S, themeKey) ==
  IF TruthyName(S.themes[themeKey].label) THEN S.themes[themeKey].label ELSE themeKey

updateButton(S, themeKey) ==
  IF ~S.button.present THEN S
  ELSE IF themeKey \notin DOMAIN S.themes THEN [S EXCEPT !.threw = TRUE]
  ELSE [S EXCEPT !.button =
          [present |-> TRUE, label |-> getThemeLabel(S, themeKey),
           icon |-> IF TruthyName(S.themes[themeKey].icon) THEN S.themes[themeKey].icon
                    ELSE "palette"]]

\* setTheme without the registry check of its first lines.
setTheme_NoGuard(S, themeKey) ==
  LET S0 == [S EXCEPT !.currentTheme = themeKey, !.setLog = Append(@, themeKey)]
      S1 == applyTheme(S0, themeKey, TRUE)
  IN IF S1.threw THEN S1 ELSE updateButton(S1, themeKey)

\* setTheme that applies the theme without asking for it to be saved.
setTheme_NoPersist(S, themeKey) ==
  IF themeKey \notin DOMAIN S.themes THEN [S EXCEPT !.warned = TRUE]
  ELSE LET S0 == [S EXCEPT !.currentTheme = themeKey, !.setLog = Append(@, themeKey)]
           S1 == applyTheme(S0, themeKey, FALSE)
       IN IF S1.threw THEN S1 ELSE updateButton(S1, themeKey)

setTheme(S, themeKey) ==
  IF themeKey \notin DOMAIN S.themes THEN [S EXCEPT !.warned = TRUE]
  ELSE LET S0 == [S EXCEPT !.currentTheme = themeKey, !.setLog = Append(@, themeKey)]
           S1 == applyTheme(S0, themeKey, TRUE)
       IN IF S1.threw THEN S1 ELSE updateButton(S1, themeKey)

\* themeKeys.indexOf(key): 0-based, -1 when absent.
indexOf(keys, key) ==
  IF \E i \in 1..Len(keys) : keys[i] = key
  THEN (CHOOSE i \in 1..Len(keys) : keys[i] = key) - 1
  ELSE 0 - 1

\* _cycleTheme without the modulo: past the last key there is no next theme.
cycleTheme_NoWrap(S) ==
  IF indexOf(S.themeKeys, S.currentTheme) + 1 >= Len(S.themeKeys) THEN [S EXCEPT !.warned = TRUE]
  ELSE setTheme(S, S.themeKeys[indexOf(S.themeKeys, S.currentTheme) + 2])

cycleTheme(S) ==
  IF Len(S.themeKeys) = 0 THEN [S EXCEPT !.warned = TRUE]
  ELSE setTheme(S, S.themeKeys[((indexOf(S.themeKeys, S.currentTheme) + 1) % Len(S.themeKeys)) + 1])

(***************************************************************************)
(* ThemeEditor: panel, views, sliders, save and reset                      *)
(*                                                                         *)
(* ed.content is what the panel element holds ("none", "selector" or       *)
(* "editor" for ed.contentKey) with the listeners attached to it;          *)
(* ed.curValues and ed.curStyle are currentValues and currentControlStyle  *)
(* of the closure of _attachEditorListeners; ed.shown is the value every   *)
(* slider displays; ed.timers are the setTimeout callbacks not yet run.    *)
(***************************************************************************)
createPanel(S) ==
  IF ~S.ed.themeControl
  THEN \* this.themeControl is null after cleanup: reading .options throws
       [S EXCEPT !.threw = TRUE]
  ELSE [S EXCEPT !.ed.panel = TRUE, !.ed.display = "none", !.ed.content = "none",
                 !.ed.contentKey = Null, !.ed.onKeyDown = TRUE, !.ed.badges = {}]

\* _isThemeModified that reports every key with an override record.
isThemeModified_AnyRecord(S, themeKey) == S.ed.customFilters[themeKey].kind = "rec"

\* Math.abs(a - b) > 0.01; false when a or b is NaN.
farApart(a, b) ==
  a # NaNNum /\ b # NaNNum /\ (IF a >= b THEN a - b ELSE b - a) > 10

isThemeModified(S, themeKey) ==
  LET custom == S.ed.customFilters[themeKey]
  IN IF custom.kind # "rec" THEN FALSE
     ELSE IF themeKey \notin DOMAIN S.builtins THEN TRUE
     ELSE LET defaultTheme == S.builtins[themeKey]
              controlStyleModified ==
                TruthyName(custom.controlStyle) /\ custom.controlStyle # defaultTheme.controlStyle
          IN \E defaultValues \in {parseFilterString(defaultTheme.filter)} :
               LET filtersModified ==
                     \E key \in FilterKeySet :
                       farApart(IF custom[key] # UndefNum THEN custom[key]
                                ELSE defaultValues[key],
                                defaultValues[key])
               IN filtersModified \/ controlStyleModified

\* ed.badges: the keys whose row of the rendered selector has the custom
\* badge (_createThemeRow); empty while the panel holds no selector.
renderThemeSelector(S) ==
  CHOOSE R \in {[T EXCEPT !.ed.content = "selector", !.ed.contentKey = Null,
                         !.ed.badges = {k \in DOMAIN T.themes : isThemeModified(T, k)}] :
                  T \in {S}} : TRUE

openThemeSelector(S) ==
  IF ~S.ed.panel THEN S
  ELSE LET S1 == [S EXCEPT !.ed.isOpen = TRUE, !.ed.currentView = "selector",
                           !.ed.display = "block"]
           S2 == renderThemeSelector(S1)
       IN [S2 EXCEPT !.ed.keyListener = S2.ed.onKeyDown \/ @,
                     !.ed.timers = @ \cup {"selector"}]

\* value || dflt for a slider: 0, undefined and NaN are falsy.
orDefault(x, dflt) == IF x <= 0 THEN dflt ELSE x

sliderSeeds(filterValues) ==
  [k \in FilterKeySet |-> orDefault(filterValues[k], IdentityValues[k])]

\* _renderThemeEditor that seeds the sliders from the identity instead of the
\* theme's filter when the theme has no override.
renderThemeEditor_IdentitySeed(S, themeKey) ==
  IF themeKey \notin DOMAIN S.themes
  THEN [S EXCEPT !.threw = TRUE]
  ELSE LET theme == S.themes[themeKey]
           custom == S.ed.customFilters[themeKey]
           filterValues == IF custom.kind = "rec" THEN ValuesOf(custom) ELSE IdentityValues
           controlStyle == IF TruthyName(theme.controlStyle) THEN theme.controlStyle
                           ELSE "light"
       IN [S EXCEPT !.ed.content = "editor", !.ed.contentKey = themeKey,
                    !.ed.curValues = filterValues, !.ed.curStyle = controlStyle,
                    !.ed.shown = sliderSeeds(filterValues),
                    !.ed.shownStyle = controlStyle, !.ed.badges = {}]

renderThemeEditor(S, themeKey) ==
  IF themeKey \notin DOMAIN S.themes
  THEN \* theme is undefined: _getThemeLabel reads theme.label and throws
       [S EXCEPT !.threw = TRUE]
  ELSE LET theme == S.themes[themeKey]
           custom == S.ed.customFilters[themeKey]
           filterValues == IF custom.kind = "rec" THEN ValuesOf(custom)
                           ELSE parseFilterString(theme.filter)
           controlStyle == IF TruthyName(theme.controlStyle) THEN theme.controlStyle
                           ELSE "light"
       IN [S EXCEPT !.ed.content = "editor", !.ed.contentKey = themeKey,
                    !.ed.curValues = filterValues, !.ed.curStyle = controlStyle,
                    !.ed.shown = sliderSeeds(filterValues),
                    !.ed.shownStyle = controlStyle, !.ed.badges = {}]

\* openThemeEditor that first makes the theme it edits the active one.
openThemeEditor_Activate(S, themeKey) ==
  IF ~S.ed.panel THEN S
  ELSE LET S0 == setTheme(S, themeKey)
           S1 == renderThemeEditor(
                   [S0 EXCEPT !.ed.currentView = "editor", !.ed.editingTheme = themeKey],
                   themeKey)
       IN IF S1.threw THEN S1 ELSE [S1 EXCEPT !.ed.timers = @ \cup {"editor"}]

openThemeEditor(S, themeKey) ==
  IF ~S.ed.panel THEN S
  ELSE LET S1 == renderThemeEditor(
                   [S EXCEPT !.ed.currentView = "editor", !.ed.editingTheme = themeKey],
                   themeKey)
       IN IF S1.threw THEN S1 ELSE [S1 EXCEPT !.ed.timers = @ \cup {"editor"}]

\* close that hides the panel but leaves isOpen set.
close_KeepOpen(S) ==
  IF ~S.ed.panel THEN S
  ELSE [S EXCEPT !.ed.display = "none",
                 !.ed.currentView = "selector", !.ed.editingTheme = Null,
                 !.ed.keyListener = FALSE]

close(S) ==
  IF ~S.ed.panel THEN S
  ELSE [S EXCEPT !.ed.isOpen = FALSE, !.ed.display = "none",
                 !.ed.currentView = "selector", !.ed.editingTheme = Null,
                 !.ed.keyListener = FALSE]

cleanup(S) ==
  LET S1 == IF S.ed.isOpen THEN close(S) ELSE S
  IN [S1 EXCEPT !.ed.keyListener = IF S1.ed.onKeyDown THEN FALSE ELSE @,
                !.ed.onKeyDown = FALSE, !.ed.inDom = FALSE, !.ed.panel = FALSE,
                !.ed.themeControl = FALSE, !.ed.customFilters = EmptyFilters,
                !.ed.cfNull = TRUE]

\* _saveCustomFilters whose setItem fails silently (the catch of its try).
saveCustomFilters_Skip(S) == S

saveCustomFilters(S) == [S EXCEPT !.storedFilters = MapStore(S.ed.customFilters)]

previewFilter(S, values) ==
  [S EXCEPT !.elFilter =
     [e \in Elements |-> IF e \in Matches(cssSelector) THEN buildFilterString(values) ELSE @[e]]]

saveTheme(S, themeKey, values, controlStyle) ==
  LET S1 == saveCustomFilters(
              [S EXCEPT !.ed.customFilters[themeKey] = OverrideRec("rec", values, controlStyle)])
      S2 == writeTheme(S1, themeKey, buildFilterString(values), controlStyle)
      S3 == IF S2.currentTheme = themeKey THEN setTheme(S2, themeKey) ELSE S2
  IN fireOnChange(S3, themeKey, themeKey)

\* _resetTheme that restores the filter but not the control style.
resetTheme_KeepStyle(S, themeKey) ==
  LET S1 == saveCustomFilters([S EXCEPT !.ed.customFilters[themeKey] = NoRec])
      hasDefault == themeKey \in DOMAIN S1.builtins
      hasCurrent == themeKey \in DOMAIN S1.themes
  IN IF ~hasCurrent THEN [S1 EXCEPT !.warned = TRUE]
     ELSE LET S2 == IF hasDefault
                    THEN writeTheme(S1, themeKey, S1.builtins[themeKey].filter,
                                    S1.themes[themeKey].controlStyle)
                    ELSE [S1 EXCEPT !.warned = TRUE]
              S3 == IF S2.currentTheme = themeKey THEN setTheme(S2, themeKey)
                    ELSE fireOnChange(S2, themeKey, themeKey)
          IN renderThemeEditor(S3, themeKey)

resetTheme(S, themeKey) ==
  LET S1 == saveCustomFilters([S EXCEPT !.ed.customFilters[themeKey] = NoRec])
      hasDefault == themeKey \in DOMAIN S1.builtins
      hasCurrent == themeKey \in DOMAIN S1.themes
  IN IF ~hasCurrent THEN [S1 EXCEPT !.warned = TRUE]
     ELSE LET S2 == IF hasDefault
                    THEN writeTheme(S1, themeKey, S1.builtins[themeKey].filter,
                                    S1.builtins[themeKey].controlStyle)
                    ELSE [S1 EXCEPT !.warned = TRUE]
              S3 == IF S2.currentTheme = themeKey THEN setTheme(S2, themeKey)
                    ELSE fireOnChange(S2, themeKey, themeKey)
          IN renderThemeEditor(S3, themeKey)

\* The 'input' listener of a slider of the rendered editor.
\* A slider listener that starts from the identity values instead of the
\* working copy.
sliderInput_Fresh(S, key, value) ==
  LET themeKey == S.ed.contentKey
      S1 == [S EXCEPT !.ed.curValues = [IdentityValues EXCEPT ![key] = value],
                      !.ed.shown[key] = value]
  IN saveTheme(previewFilter(S1, S1.ed.curValues), themeKey, S1.ed.curValues, S1.ed.curStyle)

sliderInput(S, key, value) ==
  LET themeKey == S.ed.contentKey
      S1 == [S EXCEPT !.ed.curValues[key] = value, !.ed.shown[key] = value]
  IN saveTheme(previewFilter(S1, S1.ed.curValues), themeKey, S1.ed.curValues, S1.ed.curStyle)

\* The 'click' listener of a control-style button of the rendered editor.
controlStyleClick(S, style) ==
  LET S1 == [S EXCEPT !.ed.curStyle = style, !.ed.shownStyle = style,
                      !.rootControlStyle = style]
  IN saveTheme(S1, S1.ed.contentKey, S1.ed.curValues, style)

\* The 'click' listener of a theme-select button of the rendered selector.
selectClick(S, themeKey) == close(setTheme(S, themeKey))

\* this._onKeyDown for an Escape key.
onKeyDown(S) == IF S.ed.keyListener /\ S.ed.isOpen THEN close(S) ELSE S

\* A setTimeout callback of openThemeSelector ("selector") or openThemeEditor
\* ("editor"): this.panel.querySelector(...) and focus() on what it finds.
focusTimer(S, t) ==
  LET S1 == [S EXCEPT !.ed.timers = @ \ {t}]
  IN IF ~S1.ed.panel THEN [S1 EXCEPT !.threw = TRUE]
     ELSE IF t = "selector" /\ S1.ed.content = "selector" /\ Len(S1.themeKeys) > 0
     THEN [S1 EXCEPT !.ed.focus = "select-btn"]
     ELSE IF t = "editor" /\ S1.ed.content = "editor"
     THEN [S1 EXCEPT !.ed.focus = "slider"]
     ELSE S1

onAdd(S) ==
  LET S1 == [S EXCEPT !.onMap = TRUE]
      S2 == IF S1.options.enableEditor /\ S1.ed.exists
            THEN LET P == createPanel(S1)
                 IN IF P.threw THEN P ELSE [P EXCEPT !.ed.inDom = TRUE]
            ELSE S1
  IN IF S2.threw \/ ~S2.options.addButton THEN S2
     ELSE updateButton([S2 EXCEPT !.button.present = TRUE], S2.currentTheme)

\* onRemove that leaves the listeners of the abort controller attached.
onRemove_NoAbort(S) ==
  LET S2 == IF S.ed.exists THEN cleanup(S) ELSE S
  IN [S2 EXCEPT !.button = NoButton, !.onMap = FALSE]

onRemove(S) ==
  LET S1 == [S EXCEPT !.listening = FALSE]
      S2 == IF S1.ed.exists THEN cleanup(S1) ELSE S1
  IN [S2 EXCEPT !.button = NoButton, !.onMap = FALSE]

buttonClick(S) ==
  IF S.options.enableEditor /\ S.ed.exists THEN openThemeSelector(S) ELSE cycleTheme(S)

(***************************************************************************)
(* Construction: ThemeControl.initialize and the ThemeEditor constructor   *)
(***************************************************************************)
\* The registry initialize builds: a fresh object per entry, copied from the
\* caller's map or, without one, from DEFAULT_THEMES.
\* initialize that keeps the objects it is given: the caller's map as it is,
\* or DEFAULT_THEMES itself.
initThemes_Shared(topt, bi) ==
  IF topt = "none"
  THEN [keys |-> BuiltinKeys, obj |-> [k \in BuiltinKeySet |-> bi[k]],
        alias |-> [k \in BuiltinKeySet |-> k]]
  ELSE LET u == UserThemes(topt, bi)
       IN [keys |-> u.keys, obj |-> u.obj, alias |-> u.ref]

initThemes(topt, bi) ==
  IF topt = "none"
  THEN [keys |-> BuiltinKeys, obj |-> [k \in BuiltinKeySet |-> bi[k]],
        alias |-> [k \in BuiltinKeySet |-> Null]]
  ELSE LET u == UserThemes(topt, bi)
       IN [keys |-> u.keys, obj |-> u.obj, alias |-> [k \in DOMAIN u.obj |-> Null]]

\* _loadCustomFilters that never reads the stored entry.
loadCustomFilters_Empty(S) ==
  [S EXCEPT !.ed.customFilters = EmptyFilters, !.ed.cfNull = FALSE]

loadCustomFilters(S) ==
  CASE S.storedFilters.kind = "map" ->
         [S EXCEPT !.ed.customFilters = S.storedFilters.map, !.ed.cfNull = FALSE]
    [] S.storedFilters.kind = "null" ->
         [S EXCEPT !.ed.customFilters = EmptyFilters, !.ed.cfNull = TRUE]
    [] OTHER -> \* absent, or JSON.parse threw and the catch returned {}
         [S EXCEPT !.ed.customFilters = EmptyFilters, !.ed.cfNull = FALSE]

\* One iteration of the forEach of _applyCustomFilters, for KeyOrder[i].
RECURSIVE applyCustomFrom(_, _)
applyCustomFrom(S, i) ==
  IF i > Len(KeyOrder) \/ S.threw THEN S
  ELSE LET themeKey == KeyOrder[i]
           custom == S.ed.customFilters[themeKey]
       IN IF custom.kind = "none" \/ themeKey \notin DOMAIN S.themes
          THEN applyCustomFrom(S, i + 1)
          ELSE IF custom.kind = "null"
          THEN [S EXCEPT !.threw = TRUE]
          ELSE applyCustomFrom(
                 writeTheme(S, themeKey, buildFilterString(custom),
                            IF TruthyName(custom.controlStyle) THEN custom.controlStyle
                            ELSE S.themes[themeKey].controlStyle),
                 i + 1)

applyCustomFilters(S) ==
  IF S.ed.cfNull THEN [S EXCEPT !.threw = TRUE] ELSE applyCustomFrom(S, 1)

\* new ThemeEditor(themeControl); this.editor stays unset when it throws.
newThemeEditor(S) ==
  LET S1 == [S EXCEPT !.ed = [NoEditor EXCEPT !.exists = TRUE, !.themeControl = TRUE]]
      S2 == applyCustomFilters(loadCustomFilters(S1))
  IN IF S2.threw THEN [S2 EXCEPT !.ed = NoEditor] ELSE S2

\* _determineInitialTheme that asks the system preference before the storage.
determineInitialTheme_SystemFirst(S) ==
  IF S.options.detectSystemTheme /\ S.prefersDark /\ "dark" \in DOMAIN S.themes THEN "dark"
  ELSE IF TruthyName(S.savedTheme) /\ S.savedTheme \in DOMAIN S.themes THEN S.savedTheme
  ELSE S.options.defaultTheme

determineInitialTheme(S) ==
  IF TruthyName(S.savedTheme) /\ S.savedTheme \in DOMAIN S.themes THEN S.savedTheme
  ELSE IF S.options.detectSystemTheme /\ S.prefersDark /\ "dark" \in DOMAIN S.themes THEN "dark"
  ELSE S.options.defaultTheme

\* initialize whose first _applyTheme saves like every later one.
initialize_Saving(S, c) ==
  LET reg == initThemes(c.themes, S.builtins)
      S1 == [S EXCEPT !.options = c, !.themeKeys = reg.keys, !.themes = reg.obj,
                      !.alias = reg.alias,
                      !.savedTheme = S.storedTheme,
                      !.prefersDark = IF c.detectSystemTheme THEN S.sysDark ELSE FALSE,
                      !.listening = c.detectSystemTheme]
      S2 == IF c.enableEditor THEN newThemeEditor(S1) ELSE S1
      initialTheme == determineInitialTheme(S2)
      S3 == IF S2.threw THEN S2
            ELSE applyTheme([S2 EXCEPT !.currentTheme = initialTheme], initialTheme, TRUE)
  IN [S3 EXCEPT !.phase = IF S3.threw THEN "failed" ELSE "active"]

initialize(S, c) ==
  LET reg == initThemes(c.themes, S.builtins)
      S1 == [S EXCEPT !.options = c, !.themeKeys = reg.keys, !.themes = reg.obj,
                      !.alias = reg.alias,
                      !.savedTheme = S.storedTheme,
                      !.prefersDark = IF c.detectSystemTheme THEN S.sysDark ELSE FALSE,
                      !.listening = c.detectSystemTheme]
      S2 == IF c.enableEditor THEN newThemeEditor(S1) ELSE S1
      initialTheme == determineInitialTheme(S2)
      S3 == IF S2.threw THEN S2
            ELSE applyTheme([S2 EXCEPT !.currentTheme = initialTheme], initialTheme, FALSE)
  IN [S3 EXCEPT !.phase = IF S3.threw THEN "failed" ELSE "active"]

(***************************************************************************)
(* Configurations and initial states                                       *)
(***************************************************************************)
Config(themesOpt, defaultTheme, detect, editor, addButton, onChange) ==
  [themes |-> themesOpt, defaultTheme |-> defaultTheme, detectSystemTheme |-> detect,
   enableEditor |-> editor, addButton |-> addButton, onChange |-> onChange]

\* Every combination of the options construction reads.
AllConfigs ==
  {Config(t, d, s, e, FALSE, TRUE) :
     t \in ThemeOptions, d \in {"light", "grayscale", AbsentKey}, s \in BOOLEAN, e \in BOOLEAN}

StoredKeys == {Null, "dark", "grayscale", "night", AbsentKey}

BootState(st, sf, sd) ==
  [storedTheme |-> st, storedFilters |-> sf, sysDark |-> sd,
   builtins |-> DEFAULT_THEMES, rootDataTheme |-> Undefined,
   rootControlStyle |-> Undefined, rootClasses |-> {},
   containerClasses |-> {}, elFilter |-> [e \in Elements |-> <<>>], phase |-> "boot",
   options |-> NoOptions, themeKeys |-> <<>>, themes |-> EmptyRegistry, alias |-> NoAlias,
   savedTheme |-> Null, prefersDark |-> FALSE, currentTheme |-> Undefined,
   listening |-> FALSE, button |-> NoButton, onMap |-> FALSE,
   originalThemes |-> Undefined, ed |-> NoEditor,
   cbLog |-> <<>>, setLog |-> <<>>, threw |-> FALSE, warned |-> FALSE]

Boot(st, sf, sd) ==
  LET B == BootState(st, sf, sd)
  IN /\ storedTheme = B.storedTheme
     /\ storedFilters = B.storedFilters
     /\ sysDark = B.sysDark
     /\ builtins = B.builtins
     /\ rootDataTheme = B.rootDataTheme
     /\ rootControlStyle = B.rootControlStyle
     /\ rootClasses = B.rootClasses
     /\ containerClasses = B.containerClasses
     /\ elFilter = B.elFilter
     /\ phase = B.phase
     /\ options = B.options
     /\ themeKeys = B.themeKeys
     /\ themes = B.themes
     /\ alias = B.alias
     /\ savedTheme = B.savedTheme
     /\ prefersDark = B.prefersDark
     /\ currentTheme = B.currentTheme
     /\ listening = B.listening
     /\ button = B.button
     /\ onMap = B.onMap
     /\ originalThemes = B.originalThemes
     /\ ed = B.ed
     /\ cbLog = B.cbLog
     /\ setLog = B.setLog
     /\ lastSet = Null
     /\ threw = B.threw
     /\ warned = B.warned
     /\ lastOp = [name |-> "load", arg |-> Null]
     /\ session = 1
     /\ edits = 0

CodecIdle ==
  /\ cPc = "idle"
  /\ cValues = IdentityValues
  /\ cString = <<>>
  /\ cParsed = IdentityValues

Op(name, arg) == [name |-> name, arg |-> arg]

(***************************************************************************)
(* Controller operations                                                   *)
(***************************************************************************)
Construct(c) ==
  /\ phase = "boot"
  /\ Commit(initialize(Cur, c))
  /\ lastOp' = Op("construct", Null)
  /\ UNCHANGED <<cnt, codec>>

\* controller.setTheme(themeKey), called by the page.
SetTheme(themeKey) ==
  /\ phase = "active"
  /\ Commit(setTheme(Cur, themeKey))
  /\ lastOp' = Op("setTheme", themeKey)
  /\ UNCHANGED <<cnt, codec>>

\* The system colour scheme changes; the listener of initialize runs when it
\* is attached (also on a controller whose constructor threw after attaching).
\* The media-query listener that asks for 'dark' whatever the event reports.
systemChange_DarkOnly(S, matches) ==
  IF ~S.listening \/ TruthyName(S.savedTheme) THEN S
  ELSE setTheme(S, "dark")

systemChange(S, matches) ==
  IF ~S.listening \/ TruthyName(S.savedTheme) THEN S
  ELSE setTheme(S, IF matches THEN "dark" ELSE S.options.defaultTheme)

SystemChange ==
  /\ phase # "boot"
  /\ Commit(systemChange([Cur EXCEPT !.sysDark = ~sysDark], ~sysDark))
  /\ lastOp' = Op("systemChange", IF sysDark THEN "light" ELSE "dark")
  /\ UNCHANGED <<cnt, codec>>

\* The page is loaded again: storage and the system preference stay.
Reload ==
  /\ phase # "boot"
  /\ session < MaxSessions
  /\ Commit(BootState(storedTheme, storedFilters, sysDark))
  /\ lastOp' = Op("load", Null)
  /\ session' = session + 1
  /\ edits' = edits
  /\ UNCHANGED codec

(***************************************************************************)
(* Map, button, panel and timer events                                     *)
(***************************************************************************)
Do(S, name, arg) ==
  /\ Commit(S)
  /\ lastOp' = Op(name, arg)
  /\ UNCHANGED <<cnt, codec>>

DoEdit(S, name, arg) ==
  /\ edits < MaxEdits
  /\ Commit(S)
  /\ lastOp' = Op(name, arg)
  /\ edits' = edits + 1
  /\ UNCHANGED <<session, codec>>

\* The user can reach the panel's content.
Visible == phase = "active" /\ ed.panel /\ ed.inDom /\ ed.display = "block"

OnAdd == phase = "active" /\ ~onMap /\ Do(onAdd(Cur), "onAdd", Null)

OnRemove == phase = "active" /\ onMap /\ Do(onRemove(Cur), "onRemove", Null)

ButtonClick == phase = "active" /\ onMap /\ button.present /\ Do(buttonClick(Cur), "button", Null)

EditorOpen == phase = "active" /\ ed.exists /\ Do(openThemeSelector(Cur), "open", Null)

EditorOpenThemeEditor(k) ==
  phase = "active" /\ ed.exists /\ Do(openThemeEditor(Cur, k), "openThemeEditor", k)

EditorClose == phase = "active" /\ ed.exists /\ Do(close(Cur), "close", Null)

SelectClick(k) ==
  Visible /\ ed.content = "selector" /\ k \in DOMAIN themes /\ Do(selectClick(Cur, k), "select", k)

EditClick(k) ==
  Visible /\ ed.content = "selector" /\ k \in DOMAIN themes /\ Do(openThemeEditor(Cur, k), "edit", k)

BackClick == Visible /\ ed.content = "editor" /\ Do(openThemeSelector(Cur), "back", Null)

CloseClick == Visible /\ ed.content # "none" /\ Do(close(Cur), "closeClick", Null)

Escape == phase = "active" /\ Do(onKeyDown(Cur), "escape", Null)

\* Slider positions the user moves a slider to.
SliderChoices == {<<"hueRotate", 90000>>, <<"saturate", 0>>}

SliderInput(key, value) ==
  Visible /\ ed.content = "editor" /\ DoEdit(sliderInput(Cur, key, value), "slider", key)

ControlStyleClick(style) ==
  Visible /\ ed.content = "editor" /\ DoEdit(controlStyleClick(Cur, style), "controlStyle", style)

ResetClick ==
  Visible /\ ed.content = "editor" /\ DoEdit(resetTheme(Cur, ed.contentKey), "reset", ed.contentKey)

TimerFire(t) == phase # "boot" /\ t \in ed.timers /\ Do(focusTimer(Cur, t), "timer", t)

\* The page assigns fields of controller.getThemes()[k].
DirectAssign(k) ==
  /\ phase = "active"
  /\ k \in DOMAIN themes
  /\ DoEdit(writeTheme(Cur, k, fSepia, "dark"), "assign", k)

(***************************************************************************)
(* The control with its editor, over the configurations of MainConfigs     *)
(***************************************************************************)
MainConfigs ==
  {Config("none", "light", FALSE, TRUE, TRUE, TRUE),
   Config("spread", "light", TRUE, FALSE, TRUE, TRUE)}

\* The keys the page passes to setTheme, and the themes the user edits.
PageKeys == {"dark", "grayscale", AbsentKey}
EditKeys == {"light", "dark", "night"}

Init ==
  /\ \E st \in {Null, "grayscale"} : Boot(st, AbsentStore, FALSE)
  /\ CodecIdle

Next ==
  \/ \E c \in MainConfigs : Construct(c)
  \/ \E k \in PageKeys : SetTheme(k)
  \/ (listening /\ SystemChange)
  \/ OnAdd
  \/ ButtonClick
  \/ \E k \in DOMAIN themes : SelectClick(k)
  \/ \E k \in EditKeys : EditClick(k)
  \/ BackClick
  \/ CloseClick
  \/ Escape
  \/ \E c \in SliderChoices : SliderInput(c[1], c[2])
  \/ \E style \in {"light", "dark"} : ControlStyleClick(style)
  \/ ResetClick

Spec == Init /\ [][Next]_vars

(***************************************************************************)
(* Construction and the controller alone, over every configuration         *)
(***************************************************************************)
CtorInit ==
  /\ \E st \in StoredKeys, sd \in BOOLEAN : Boot(st, AbsentStore, sd)
  /\ CodecIdle

CtorNext ==
  \/ \E c \in AllConfigs : Construct(c)
  \/ \E k \in AllKeys \cup {AbsentKey} : SetTheme(k)
  \/ SystemChange
  \/ Reload

CtorSpec == CtorInit /\ [][CtorNext]_vars

(***************************************************************************)
(* The control with its editor over a caller map that reuses built-in      *)
(* theme objects, on a page that also writes to the registry's entries     *)
(***************************************************************************)
PageConfigs ==
  {Config("spread", "light", FALSE, TRUE, TRUE, TRUE),
   Config("none", "light", FALSE, TRUE, TRUE, TRUE)}

PageInit ==
  /\ Boot(Null, AbsentStore, FALSE)
  /\ CodecIdle

PageNext ==
  \/ \E c \in PageConfigs : Construct(c)
  \/ \E k \in PageKeys : SetTheme(k)
  \/ \E k \in EditKeys : DirectAssign(k)
  \/ OnAdd
  \/ ButtonClick
  \/ \E k \in EditKeys : EditClick(k)
  \/ \E c \in SliderChoices : SliderInput(c[1], c[2])
  \/ \E style \in {"light", "dark"} : ControlStyleClick(style)
  \/ ResetClick

PageSpec == PageInit /\ [][PageNext]_vars

(***************************************************************************)
(* The filter codec on its own: build a string from values, parse it back  *)
(***************************************************************************)
\* Slider positions: CodecGrid + 1 evenly spaced points of each range.
UnitGrid == {(k * 1000) \div CodecGrid : k \in 0..CodecGrid}
TwoGrid == {(k * 2000) \div CodecGrid : k \in 0..CodecGrid}
HueGrid == {(k * 360000) \div CodecGrid : k \in 0..CodecGrid}

InRangeValues ==
  [invert : UnitGrid, hueRotate : HueGrid, saturate : TwoGrid, brightness : TwoGrid,
   contrast : TwoGrid, sepia : UnitGrid, grayscale : UnitGrid]

CodecInit ==
  /\ Boot(Null, AbsentStore, FALSE)
  /\ cPc = "input"
  /\ cValues \in InRangeValues
  /\ cString = <<>>
  /\ cParsed = IdentityValues

CodecBuild ==
  /\ cPc = "input"
  /\ cString' = buildFilterString(cValues)
  /\ cPc' = "built"
  /\ UNCHANGED <<env, dom, ctl, ed, obs, cnt, cValues, cParsed>>

CodecParse ==
  /\ cPc = "built"
  /\ cParsed' = parseFilterString(cString)
  /\ cPc' = "parsed"
  /\ UNCHANGED <<env, dom, ctl, ed, obs, cnt, cValues, cString>>

CodecNext == CodecBuild \/ CodecParse

CodecSpec == CodecInit /\ [][CodecNext]_vars

(***************************************************************************)
(* Properties                                                              *)
(***************************************************************************)

C2_SetThemeAgrees ==
  setLog # <<>> =>
    LET k == setLog[Len(setLog)]
    IN /\ currentTheme = k
       /\ storedTheme = k
       /\ rootDataTheme = k
       /\ (options.onChange => \E i \in 1..Len(cbLog) : cbLog[i] = Call(k, k))

\* C2 witness: the editor saved the active theme, which called setTheme.
C2_Witness ==
  /\ lastOp.name = "slider"
  /\ setLog = <<currentTheme>>
  /\ ed.contentKey = currentTheme
  /\ storedTheme = currentTheme

C4_ChoiceSurvivesReload ==
  (lastOp.name = "construct" /\ lastSet # Null /\ lastSet \in DOMAIN themes)
    => currentTheme = lastSet

\* C4 witness: grayscale was chosen in the first session; the second starts
\* with it although the system reports dark and defaultTheme is light.
C4_Witness ==
  /\ lastOp.name = "construct"
  /\ session = 2
  /\ lastSet = "grayscale"
  /\ options.detectSystemTheme
  /\ sysDark
  /\ "dark" \in DOMAIN themes
  /\ options.defaultTheme = "light"
  /\ currentTheme = "grayscale"

\* C5: once a key is persisted (before construction or by setTheme in this
\* session) a change of the system preference never changes the active
\* theme.
C5_PersistedSuppressesSystem ==
  [][(lastOp'.name = "systemChange" /\ storedTheme # Null)
       => currentTheme' = currentTheme]_vars

\* C6: construction leaves the persisted active-theme entry as it was.
C6_ConstructionDoesNotPersist ==
  [][lastOp'.name = "construct" => storedTheme' = storedTheme]_vars

\* C6 witness: a controller with an editor was constructed over an empty
\* storage, resolved 'dark' from the system preference, and the storage is
\* still empty.
C6_Witness ==
  /\ lastOp.name = "construct"
  /\ phase = "active"
  /\ options.enableEditor
  /\ ed.exists
  /\ currentTheme = "dark"
  /\ rootDataTheme = "dark"
  /\ storedTheme = Null

\* C7: every field of every DEFAULT_THEMES entry keeps its original value,
\* whatever is constructed, set, edited, reset or assigned.
C7_DefaultsNeverModified == builtins = DEFAULT_THEMES

\* C7 witness: over a caller map that reuses the built-in light object, the
\* page assigned fields of the registry's dark and light entries.
C7_Witness ==
  /\ options.themes = "spread"
  /\ lastOp = Op("assign", "light")
  /\ edits = 2
  /\ themes["light"].filter = fSepia
  /\ themes["dark"].filter # fDark200

\* C8: after construction the controller holds originalThemes, with the
\* configured filter and controlStyle of every registry key.
C8_OriginalThemesSnapshot ==
  lastOp.name = "construct" /\ phase = "active" =>
    /\ originalThemes # Undefined
    /\ \A k \in DOMAIN themes :
         /\ k \in DOMAIN originalThemes
         /\ originalThemes[k].filter = themes[k].filter
         /\ originalThemes[k].controlStyle = themes[k].controlStyle

C10_Canonical ==
  cPc = "built" =>
    LET N == Len(FilterKeys)
        name == <<sInvert, sHueRotate, sSaturate, sBrightness, sContrast, sSepia, sGrayscale>>
        val == [i \in 1..N |-> cValues[FilterKeys[i]]]
        differs == [i \in 1..N |-> IF i \in {3, 4, 5} THEN val[i] # 1000 ELSE val[i] # 0]
        tok == [i \in 1..N |-> Token(name[i], val[i], IF i = 2 THEN sDeg \o sClose ELSE sClose)]
        \* where function i's name and "(" stand at the start of a token
        starts == [i \in 1..N |->
                     {p \in 1..Len(cString) :
                        /\ cString[p] = name[i][1]
                        /\ (p = 1 \/ cString[p - 1] = " ")
                        /\ LitAt(cString, name[i] \o sOpen, p)}]
        present == [i \in 1..N |-> starts[i] # {}]
        pos == [i \in 1..N |-> IF present[i] THEN CHOOSE p \in starts[i] : TRUE ELSE 0]
        len == [i \in 1..N |-> IF present[i] THEN Len(tok[i]) ELSE 0]
        total == len[1] + len[2] + len[3] + len[4] + len[5] + len[6] + len[7]
        count == Cardinality({i \in 1..N : present[i]})
    IN /\ \A i \in 1..N : present[i] <=> differs[i]
       /\ \A i \in 1..N : present[i] =>
            /\ Cardinality(starts[i]) = 1
            /\ LitAt(cString, tok[i], pos[i])
       /\ \A i, j \in 1..N : (i < j /\ present[i] /\ present[j]) => pos[i] < pos[j]
       /\ Len(cString) = total + (IF count = 0 THEN 0 ELSE count - 1)
       /\ ((\A i \in 1..N : ~differs[i]) => cString = <<>>)

\* C10 witness: a string with the first, the third and the last token.
C10_Witness ==
  /\ cPc = "built"
  /\ cValues.invert = 1000
  /\ cValues.hueRotate = 0
  /\ cValues.saturate = 2000
  /\ cValues.brightness = 1000
  /\ cValues.contrast = 1000
  /\ cValues.sepia = 0
  /\ cValues.grayscale = 500
  /\ Len(cString) = 36

\* C11: after an operation whose last setTheme accepted k, every element
\* matched by an applyToSelectors entry of some registered theme but by none
\* of k has an empty filter, and every element matched by an applyToSelectors
\* entry of k carries k's filter (empty when k has none).
C11_NoStaleSideFilters ==
  setLog # <<>> =>
    LET k == setLog[Len(setLog)]
        kFilter == IF TruthyStr(themes[k].filter) THEN themes[k].filter ELSE <<>>
        mine == {e \in Elements : \E sel \in themes[k].applyToSelectors : e \in Matches(sel)}
        any == {e \in Elements :
                  \E j \in DOMAIN themes : \E sel \in themes[j].applyToSelectors : e \in Matches(sel)}
    IN /\ \A e \in any \ mine : elFilter[e] = <<>>
       /\ \A e \in mine : elFilter[e] = kFilter

\* C11 witness: the session started with 'night', whose filter went to the
\* .side elements; setTheme('custom') then emptied them and filtered .legend.
C11_Witness ==
  /\ lastOp = Op("setTheme", "custom")
  /\ options.themes = "own"
  /\ savedTheme = "night"
  /\ currentTheme = "custom"
  /\ elFilter["side"] = <<>>
  /\ elFilter["legend"] = fSepia

\* C12: after an operation whose last setTheme accepted k, every element the
\* primary selector matches has k's filter (empty when k has none), also an
\* element that an applyToSelectors entry of another theme matches.
C12_PrimaryCarriesFilter ==
  setLog # <<>> =>
    LET k == setLog[Len(setLog)]
        kFilter == IF TruthyStr(themes[k].filter) THEN themes[k].filter ELSE <<>>
    IN \A e \in Matches(cssSelector) : elFilter[e] = kFilter

(***************************************************************************)
(* The editor over a caller map: 'custom' has a built-in default and its   *)
(* own applyToSelectors, 'night' has no built-in default; the page is      *)
(* loaded again over what the editor stored                                *)
(***************************************************************************)
EditorConfigs == {Config("own", "light", FALSE, TRUE, TRUE, TRUE)}

\* The themes the user edits, and the keys the page passes to setTheme.
OwnEditKeys == {"night", "custom"}
OwnPageKeys == {"night", "custom"}

EditorInit ==
  /\ Boot(Null, AbsentStore, FALSE)
  /\ CodecIdle

EditorNext ==
  \/ \E c \in EditorConfigs : Construct(c)
  \/ \E k \in OwnPageKeys : SetTheme(k)
  \/ Reload
  \/ OnAdd
  \/ ButtonClick
  \/ \E k \in DOMAIN themes : SelectClick(k)
  \/ \E k \in OwnEditKeys : EditClick(k)
  \/ BackClick
  \/ \E c \in SliderChoices : SliderInput(c[1], c[2])
  \/ \E style \in {"light", "dark"} : ControlStyleClick(style)
  \/ ResetClick

EditorSpec == EditorInit /\ [][EditorNext]_vars

\* C13: a reset of a registry key k that has a built-in default leaves
\* registry[k].filter and registry[k].controlStyle equal to those of
\* DEFAULT_THEMES[k], no override record for k in memory or in the store,
\* and label, icon, className and applyToSelectors of registry[k] as before.
C13_ResetRestoresBuiltin ==
  [][(lastOp'.name = "reset" /\ lastOp'.arg \in DOMAIN themes
        /\ lastOp'.arg \in DOMAIN DEFAULT_THEMES)
       => LET k == lastOp'.arg
          IN /\ themes'[k].filter = DEFAULT_THEMES[k].filter
             /\ themes'[k].controlStyle = DEFAULT_THEMES[k].controlStyle
             /\ ed'.customFilters[k].kind = "none"
             /\ storedFilters'.kind = "map"
             /\ storedFilters'.map[k].kind = "none"
             /\ themes'[k].label = themes[k].label
             /\ themes'[k].icon = themes[k].icon
             /\ themes'[k].className = themes[k].className
             /\ themes'[k].applyToSelectors = themes[k].applyToSelectors]_vars

\* C13 witness: 'custom' of the caller map was reset after an edit: it has
\* the built-in filter and control style, and still the caller's label and
\* applyToSelectors.
C13_Witness ==
  /\ lastOp = Op("reset", "custom")
  /\ options.themes = "own"
  /\ edits = 2
  /\ themes["night"].filter = fNight
  /\ themes["custom"].filter = fCustom
  /\ themes["custom"].controlStyle = "dark"
  /\ themes["custom"].label = "My Custom"
  /\ themes["custom"].applyToSelectors = {".legend"}
  /\ storedFilters.kind = "map"

\* C14: a reset of a registry key without a built-in default changes
\* nothing: the registry, the override records in memory and in the store,
\* the active theme and the persisted active key stay as they were.
C14_ResetWithoutDefaultNoOp ==
  [][(lastOp'.name = "reset" /\ lastOp'.arg \in DOMAIN themes
        /\ lastOp'.arg \notin DOMAIN DEFAULT_THEMES)
       => /\ themes' = themes
          /\ ed'.customFilters = ed.customFilters
          /\ storedFilters'.map = storedFilters.map
          /\ currentTheme' = currentTheme
          /\ storedTheme' = storedTheme]_vars

\* C15: with an editor, the stored overrides are the editor's customFilters,
\* and every registry key k with an override record has the filter built
\* from the record and, when the record has a controlStyle, that
\* controlStyle.
C15_OverrideCoherence ==
  (phase = "active" /\ ed.exists) =>
    /\ storedFilters.map = ed.customFilters
    /\ (storedFilters.kind = "absent" => ed.customFilters = EmptyFilters)
    /\ \A k \in DOMAIN themes :
         LET r == ed.customFilters[k]
         IN r.kind = "rec" =>
              /\ themes[k].filter = buildFilterString(ValuesOf(r))
              /\ (TruthyName(r.controlStyle) => themes[k].controlStyle = r.controlStyle)

\* C15 witness: a controller constructed over a stored override of 'night'
\* holds the record and the filter built from it.
C15_Witness ==
  /\ lastOp.name = "construct"
  /\ session = 2
  /\ ed.exists
  /\ storedFilters.kind = "map"
  /\ ed.customFilters["night"].kind = "rec"
  /\ ed.customFilters["night"].saturate = 0
  /\ themes["night"].filter # fNight

\* C16: a slider input or control-style click for theme k calls setTheme(k)
\* and the callback runs once when k is active; when k is not active the
\* callback runs once with k and no setTheme happens: the active key, the
\* persisted key and data-theme stay.
C16_SaveCallbackOnce ==
  [][(lastOp'.name \in {"slider", "controlStyle"})
       => LET k == ed.contentKey
          IN IF k = currentTheme
             THEN setLog' = <<k>> /\ cbLog' = <<Call(k, k)>>
             ELSE /\ cbLog' = <<Call(k, k)>>
                  /\ setLog' = <<>>
                  /\ currentTheme' = currentTheme
                  /\ storedTheme' = storedTheme
                  /\ rootDataTheme' = rootDataTheme]_vars

(***************************************************************************)
(* The built-in registry with 'custom' active and no stored override: the  *)
(* user opens editors and moves the invert and hue-rotate sliders          *)
(***************************************************************************)
ScenarioConfigs == {Config("none", "light", FALSE, TRUE, TRUE, TRUE)}

\* The invert slider moved to 1 and the hue-rotate slider to 90.
ScenarioSliders == {<<"invert", 1000>>, <<"hueRotate", 90000>>}

ScenarioInit ==
  /\ Boot("custom", AbsentStore, FALSE)
  /\ CodecIdle

ScenarioNext ==
  \/ \E c \in ScenarioConfigs : Construct(c)
  \/ OnAdd
  \/ ButtonClick
  \/ \E k \in {"custom", "dark"} : EditClick(k)
  \/ BackClick
  \/ CloseClick
  \/ \E c \in ScenarioSliders : SliderInput(c[1], c[2])

ScenarioSpec == ScenarioInit /\ [][ScenarioNext]_vars

\* C17 (as the code has it): with the built-in registry, no stored override
\* and 'custom' active, moving the invert slider to 1 and then the hue-rotate
\* slider to 90 in the editor of 'custom' leaves the filter
\* "invert(1) hue-rotate(90deg) sepia(0.5) grayscale(0.5)" on every
\* primary-selector element, stores the record invert=1, hueRotate=90,
\* saturate=brightness=contrast=1, sepia=0.5, grayscale=0.5 (the values
\* parsed from the preset's filter) for 'custom', and calls the callback with
\* the updated theme.
C17_ScenarioKeepsPresetFields ==
  [][(/\ lastOp = Op("slider", "invert")
      /\ lastOp' = Op("slider", "hueRotate")
      /\ ed.contentKey = "custom"
      /\ currentTheme = "custom"
      /\ ed.customFilters["dark"].kind = "none")
       => LET f == <<"i", "n", "v", "e", "r", "t", "(", "1", ")", " ", "h", "u", "e",
                    "-", "r", "o", "t", "a", "t", "e", "(", "9", "0", "d", "e", "g", ")",
                    " ", "s", "e", "p", "i", "a", "(", "0", ".", "5", ")", " ", "g", "r",
                    "a", "y", "s", "c", "a", "l", "e", "(", "0", ".", "5", ")">>
          IN /\ \A e \in Matches(cssSelector) : elFilter'[e] = f
             /\ storedFilters'.kind = "map"
             /\ storedFilters'.map["custom"] =
                  OverrideRec("rec",
                              [invert |-> 1000, hueRotate |-> 90000, saturate |-> 1000,
                               brightness |-> 1000, contrast |-> 1000, sepia |-> 500,
                               grayscale |-> 500],
                              "dark")
             /\ themes'["custom"].filter = f
             /\ \E i \in 1..Len(cbLog') : cbLog'[i] = Call("custom", "custom")]_vars

\* C17 witness: the hue-rotate slider of the editor of the active 'custom'
\* was moved to 90 as the second edit, and the record of 'custom' is stored.
C17_Witness ==
  /\ lastOp = Op("slider", "hueRotate")
  /\ edits = 2
  /\ ed.contentKey = "custom"
  /\ currentTheme = "custom"
  /\ ed.customFilters["dark"].kind = "none"
  /\ ed.curValues.invert = 1000
  /\ ed.curValues.hueRotate = 90000
  /\ storedFilters.kind = "map"
  /\ storedFilters.map["custom"].kind = "rec"

\* C17 (as stated): in the same scenario the filter on every
\* primary-selector element is "invert(1) hue-rotate(90deg)", the stored record
\* of 'custom' has invert=1, hueRotate=90 and the other five fields at the
\* identity (saturate=brightness=contrast=1, sepia=grayscale=0), and the
\* callback was called with the updated theme.
C17_ScenarioAsStated ==
  [][(/\ lastOp = Op("slider", "invert")
      /\ lastOp' = Op("slider", "hueRotate")
      /\ ed.contentKey = "custom"
      /\ currentTheme = "custom"
      /\ ed.customFilters["dark"].kind = "none")
       => LET f == <<"i", "n", "v", "e", "r", "t", "(", "1", ")", " ", "h", "u", "e",
                    "-", "r", "o", "t", "a", "t", "e", "(", "9", "0", "d", "e", "g", ")">>
          IN /\ \A e \in Matches(cssSelector) : elFilter'[e] = f
             /\ storedFilters'.kind = "map"
             /\ ValuesOf(storedFilters'.map["custom"]) =
                  [IdentityValues EXCEPT !.invert = 1000, !.hueRotate = 90000]
             /\ \E i \in 1..Len(cbLog') : cbLog'[i] = Call("custom", "custom")]_vars

(***************************************************************************)
(* The editor's panel driven through its API and through its buttons       *)
(***************************************************************************)
PanelConfigs == {Config("none", "light", FALSE, TRUE, TRUE, TRUE)}

\* The keys the page passes to editor.openThemeEditor.
PanelKeys == {"dark", "custom", AbsentKey}

PanelInit ==
  /\ \E st \in {Null, "dark"} : Boot(st, AbsentStore, FALSE)
  /\ CodecIdle

PanelNext ==
  \/ \E c \in PanelConfigs : Construct(c)
  \/ OnAdd
  \/ ButtonClick
  \/ EditorOpen
  \/ \E k \in PanelKeys : EditorOpenThemeEditor(k)
  \/ EditorClose
  \/ \E k \in DOMAIN themes : SelectClick(k)
  \/ \E k \in EditKeys : EditClick(k)
  \/ BackClick
  \/ CloseClick
  \/ Escape

PanelSpec == PanelInit /\ [][PanelNext]_vars

\* C18: editor.openThemeEditor(k) for a registry key k, called while the
\* panel of a control on a map is closed, leaves the panel visible and the
\* editor open on the editor view of k, with the Escape listener attached.
C18_OpenThemeEditorOpens ==
  [][(/\ lastOp'.name = "openThemeEditor"
      /\ lastOp'.arg \in DOMAIN themes
      /\ ed.panel /\ ed.inDom /\ ~ed.isOpen)
       => /\ ed'.display = "block"
          /\ ed'.isOpen
          /\ ed'.currentView = "editor"
          /\ ed'.content = "editor"
          /\ ed'.contentKey = lastOp'.arg
          /\ ed'.keyListener]_vars

\* C19: editor.openThemeEditor(key) with a key the registry lacks throws
\* nothing and leaves the registry, the override store, the active theme
\* and the panel's content and view as they were.
C19_OpenThemeEditorAbsentKey ==
  [][(lastOp'.name = "openThemeEditor" /\ lastOp'.arg \notin DOMAIN themes)
       => /\ ~threw'
          /\ themes' = themes
          /\ storedFilters' = storedFilters
          /\ ed'.customFilters = ed.customFilters
          /\ currentTheme' = currentTheme
          /\ ed'.content = ed.content
          /\ ed'.contentKey = ed.contentKey
          /\ ed'.currentView = ed.currentView
          /\ ed'.editingTheme = ed.editingTheme
          /\ ed'.isOpen = ed.isOpen
          /\ ed'.display = ed.display]_vars

(***************************************************************************)
(* Construction over every kind of content of the override entry           *)
(***************************************************************************)
\* One stored record: 'dark' with saturate 0 and control style light.
DarkOverride ==
  OverrideRec("rec", [IdentityValues EXCEPT !.invert = 1000, !.saturate = 0], "light")

\* A stored record that has only some of the fields: {"invert": 1}.
PartialOverride ==
  OverrideRec("rec", [NoValues EXCEPT !.invert = 1000], Undefined)

\* localStorage[storageKey + '-custom-filters']: absent, text that is not
\* JSON, "null", {"dark": null}, a well-formed {"dark": {...}}, and
\* {"dark": {"invert": 1}}.
StoredFilterChoices ==
  {AbsentStore,
   [kind |-> "malformed", map |-> EmptyFilters],
   [kind |-> "null", map |-> EmptyFilters],
   MapStore([EmptyFilters EXCEPT !["dark"] = NullRec]),
   MapStore([EmptyFilters EXCEPT !["dark"] = DarkOverride]),
   MapStore([EmptyFilters EXCEPT !["dark"] = PartialOverride])}

LoadConfigs ==
  {Config(t, "light", FALSE, e, FALSE, TRUE) : t \in {"none", "own"}, e \in BOOLEAN}

LoadInit ==
  /\ \E st \in {Null, "dark"}, sf \in StoredFilterChoices : Boot(st, sf, FALSE)
  /\ CodecIdle

LoadNext ==
  \/ \E c \in LoadConfigs : Construct(c)
  \/ \E k \in PageKeys : SetTheme(k)
  \/ Reload

LoadSpec == LoadInit /\ [][LoadNext]_vars

\* C20: whatever the override entry holds that is not a well-formed mapping
\* of keys to records (nothing, text that is not JSON, null, a mapping with a
\* null record), constructing a controller with the editor throws nothing,
\* the editor has no overrides, and every registry entry has its configured
\* filter and controlStyle.
C20_LoadNeverFails ==
  (/\ lastOp.name = "construct"
   /\ options.enableEditor
   /\ \/ storedFilters.kind # "map"
      \/ \E k \in AllKeys : storedFilters.map[k].kind = "null")
    => /\ ~threw
       /\ phase = "active"
       /\ ed.exists
       /\ ed.customFilters = EmptyFilters
       /\ \A k \in DOMAIN themes :
            LET configured == initThemes(options.themes, DEFAULT_THEMES).obj[k]
            IN /\ themes[k].filter = configured.filter
               /\ themes[k].controlStyle = configured.controlStyle

(***************************************************************************)
(* The controller with its button and no editor: the button cycles, the    *)
(* page sets themes and the system colour scheme changes                   *)
(***************************************************************************)
ControlConfigs ==
  {Config(t, d, s, FALSE, TRUE, TRUE) :
     t \in {"none", "own", "empty"}, d \in {"light", AbsentKey}, s \in BOOLEAN}

ControlKeys == {"dark", "custom", AbsentKey}

ControlInit ==
  /\ \E st \in {Null, "custom", AbsentKey}, sd \in BOOLEAN : Boot(st, AbsentStore, sd)
  /\ CodecIdle

ControlNext ==
  \/ \E c \in ControlConfigs : Construct(c)
  \/ \E k \in ControlKeys : SetTheme(k)
  \/ SystemChange
  \/ OnAdd
  \/ ButtonClick

ControlSpec == ControlInit /\ [][ControlNext]_vars

\* C21: construction, setTheme, the cycle operation and the reaction to a
\* system colour-scheme change never throw, whatever the registry (also an
\* empty one), defaultTheme (also one the registry lacks), the persisted key
\* and the system preference are; construction leaves a working controller.
C21_ControllerNeverThrows ==
  lastOp.name \in {"construct", "setTheme", "button", "systemChange"}
    => ~threw /\ phase # "failed"

\* The view of the editor: Closed while isOpen is false, else currentView.
View(e) == IF ~e.isOpen THEN "closed" ELSE e.currentView

\* C22: once the panel exists, open() and the control's button lead to the
\* selector view with the panel visible; an edit action leads from the
\* selector view to the editor view; back leads from the editor view to the
\* selector view; close() and Escape lead from both views to Closed with the
\* panel hidden; selecting row k in the selector view makes k active and
\* leads to Closed; no operation changes the view otherwise, and Escape while
\* Closed changes nothing.
C22_ViewStateMachine ==
  [][ed.panel =>
       LET op == lastOp'.name
           v == View(ed)
           w == View(ed')
       IN CASE op \in {"open", "button", "back"} ->
                 w = "selector" /\ ed'.display = "block"
            [] op \in {"edit", "openThemeEditor"} ->
                 IF v = "closed" THEN w = "closed" /\ ed'.display = ed.display
                 ELSE w = "editor" /\ ed'.display = "block"
            [] op \in {"close", "closeClick"} ->
                 w = "closed" /\ ed'.display = "none"
            [] op = "escape" ->
                 IF v = "closed"
                 THEN <<env, dom, ctl, ed>>' = <<env, dom, ctl, ed>>
                 ELSE w = "closed" /\ ed'.display = "none"
            [] op = "select" ->
                 /\ v # "closed"
                 /\ currentTheme' = lastOp'.arg
                 /\ w = "closed"
                 /\ ed'.display = "none"
            [] OTHER -> w = v /\ ed'.display = ed.display]_vars

\* C22 witness: Escape closed the panel while it showed an editor view.
C22_Witness ==
  /\ lastOp.name = "escape"
  /\ ed.panel
  /\ View(ed) = "closed"
  /\ ed.display = "none"
  /\ ed.content = "editor"
  /\ ~ed.keyListener

(***************************************************************************)
(* A control that is added to a map, used, and removed again               *)
(***************************************************************************)
TeardownConfigs == {Config("none", "light", TRUE, e, TRUE, TRUE) : e \in BOOLEAN}

TeardownKeys == {"dark", AbsentKey}

TeardownInit ==
  /\ \E sd \in BOOLEAN : Boot(Null, AbsentStore, sd)
  /\ CodecIdle

TeardownNext ==
  \/ \E c \in TeardownConfigs : Construct(c)
  \/ OnAdd
  \/ OnRemove
  \/ SystemChange
  \/ ButtonClick
  \/ EditorOpen
  \/ \E k \in TeardownKeys : EditorOpenThemeEditor(k)
  \/ EditorClose
  \/ \E k \in {"dark"} : EditClick(k)
  \/ Escape

TeardownSpec == TeardownInit /\ [][TeardownNext]_vars

\* onRemove ran and the control was not added to a map again: onRemove was
\* the last operation, or the editor has been cleaned up.
Removed == phase = "active" /\ ~onMap /\ (lastOp.name = "onRemove" \/ (ed.exists /\ ~ed.themeControl))

\* C23: onRemove leaves the editor without its panel, its controller and its
\* override cache, and without a key listener; on a removed control a change
\* of the system preference, an Escape keydown, editor.open(),
\* editor.openThemeEditor(k) and editor.close() throw nothing and change
\* neither the active theme, nor the persisted entries, nor the document,
\* nor the controller, nor the editor.
C23_TeardownIsFinal ==
  [][/\ (lastOp'.name = "onRemove" /\ ed.exists)
          => /\ ~ed'.panel
             /\ ~ed'.inDom
             /\ ~ed'.themeControl
             /\ ed'.cfNull
             /\ ed'.customFilters = EmptyFilters
             /\ ~ed'.keyListener
             /\ ~ed'.isOpen
     /\ (Removed /\ lastOp'.name \in {"systemChange", "escape", "open", "openThemeEditor", "close"})
          => /\ ~threw'
             /\ storedTheme' = storedTheme
             /\ storedFilters' = storedFilters
             /\ builtins' = builtins
             /\ dom' = dom
             /\ ctl' = ctl
             /\ ed' = ed
             /\ cbLog' = <<>>]_vars

\* C23 witness: the system preference changed after a control with an editor,
\* whose panel showed an editor view, was removed; the theme chosen before
\* the removal is still the active one.
C23_Witness ==
  /\ lastOp = Op("systemChange", "light")
  /\ Removed
  /\ ed.exists
  /\ ~ed.panel
  /\ ed.content = "editor"
  /\ currentTheme = "dark"
  /\ rootDataTheme = "dark"

\* C24: after every operation of a constructed controller, every element the
\* primary selector matches and no applyToSelectors entry of a registered
\* theme matches carries the filter of the active theme (empty when the
\* theme has none).
C24_DisplayedFilterIsActive ==
  (phase = "active" /\ currentTheme \in DOMAIN themes) =>
    LET f == themes[currentTheme].filter
        shownFilter == IF TruthyStr(f) THEN f ELSE <<>>
    IN \A e \in Matches(cssSelector) \ matchedBy(allSelectors(themes)) :
         elFilter[e] = shownFilter

C26_MarkerClassExclusive ==
  ((lastOp.name = "construct" /\ phase = "active") \/ setLog # <<>>) =>
    rootClasses \cap themeClasses(themes) =
      (IF TruthyName(themes[currentTheme].className)
       THEN {themes[currentTheme].className} ELSE {})

\* C26 witness: the button cycled from 'light' to 'dark' of the built-in
\* registry; the root has theme-dark and no longer theme-light.
C26_Witness ==
  /\ lastOp = Op("button", Null)
  /\ options.themes = "none"
  /\ setLog = <<"dark">>
  /\ currentTheme = "dark"
  /\ rootClasses = {"theme-dark"}

\* n consecutive cycle operations.
RECURSIVE cycleTimes(_, _)
cycleTimes(S, n) == IF n = 0 THEN S ELSE cycleTheme(cycleTimes(S, n - 1))

\* C27: a click on the button of a control without an editor makes the key
\* after the active one in the registry's key order the active theme, the
\* first key after the last one, and persists it; with n registry keys, n
\* cycle operations from the state before the click visit every key once,
\* persist each, and end at the theme they started from.
C27_CycleSuccessor ==
  [][(lastOp'.name = "button" /\ ~(options.enableEditor /\ ed.exists))
       => LET n == Len(themeKeys)
              run == [j \in 0..n |-> cycleTimes(Cur, j)]
          IN /\ \E i \in 1..n :
                  /\ themeKeys[i] = currentTheme
                  /\ currentTheme' = themeKeys[IF i = n THEN 1 ELSE i + 1]
             /\ storedTheme' = currentTheme'
             /\ rootDataTheme' = currentTheme'
             /\ run[1].currentTheme = currentTheme'
             /\ {run[j].currentTheme : j \in 1..n} = DOMAIN themes
             /\ \A j \in 1..n : run[j].storedTheme = run[j].currentTheme
             /\ run[n].currentTheme = currentTheme]_vars

\* C27 witness: with the three keys of a caller map, the button cycled from
\* the last key to the first.
C27_Witness ==
  /\ lastOp = Op("button", Null)
  /\ options.themes = "own"
  /\ ~options.enableEditor
  /\ setLog = <<"light">>
  /\ currentTheme = themeKeys[1]
  /\ storedTheme = "light"
  /\ button.label = "Light"

\* C28 (as the code has it): on a constructed controller with
\* detectSystemTheme enabled and nothing persisted, a notification that the
\* system became dark makes 'dark' the active theme when the registry has
\* 'dark' and leaves the active theme unchanged otherwise; a notification
\* that the system became light makes defaultTheme the active theme when the
\* registry has defaultTheme and otherwise leaves the active theme unchanged
\* with a warning.  With detectSystemTheme disabled a notification never
\* changes the active theme.
C28_SystemReaction ==
  [][(lastOp'.name = "systemChange" /\ phase = "active")
       => /\ (options.detectSystemTheme /\ storedTheme = Null /\ sysDark')
               => currentTheme' = (IF "dark" \in DOMAIN themes THEN "dark" ELSE currentTheme)
          /\ (options.detectSystemTheme /\ storedTheme = Null /\ ~sysDark')
               => IF options.defaultTheme \in DOMAIN themes
                  THEN currentTheme' = options.defaultTheme
                  ELSE currentTheme' = currentTheme /\ warned' /\ ~threw'
          /\ ~options.detectSystemTheme => currentTheme' = currentTheme]_vars

\* C28 witness: nothing is persisted and the system became light: the
\* listener made defaultTheme the active theme.
C28_Witness ==
  /\ lastOp = Op("systemChange", "light")
  /\ phase = "active"
  /\ options.detectSystemTheme
  /\ ~sysDark
  /\ savedTheme = Null
  /\ setLog = <<options.defaultTheme>>
  /\ currentTheme = "light"
  /\ rootDataTheme = "light"

\* C28 (as stated): as above, but a notification that the system became
\* light makes defaultTheme the active theme in every case.
C28_SystemReactionAsStated ==
  [][(lastOp'.name = "systemChange" /\ phase = "active")
       => /\ (options.detectSystemTheme /\ storedTheme = Null /\ sysDark')
               => currentTheme' = (IF "dark" \in DOMAIN themes THEN "dark" ELSE currentTheme)
          /\ (options.detectSystemTheme /\ storedTheme = Null /\ ~sysDark')
               => currentTheme' = options.defaultTheme
          /\ ~options.detectSystemTheme => currentTheme' = currentTheme]_vars

\* C29: when the editor view of a registry key k is rendered (edit button,
\* openThemeEditor, or the re-rendering after a reset), every slider shows
\* the field of k's override record when there is one, else the field parsed
\* from registry[k].filter, also when the field is 0; the control-style
\* buttons show registry[k].controlStyle, light when it is unset.
C29_EditorSeeding ==
  [][(/\ lastOp'.name \in {"edit", "openThemeEditor", "reset"}
      /\ lastOp'.arg \in DOMAIN themes
      /\ ed'.content = "editor"
      /\ ed'.contentKey = lastOp'.arg)
       => LET k == lastOp'.arg
              r == ed'.customFilters[k]
              seed == IF r.kind = "rec" THEN ValuesOf(r) ELSE parseFilterString(themes'[k].filter)
          IN /\ \A f \in FilterKeySet : ed'.shown[f] = seed[f]
             /\ ed'.shownStyle = (IF TruthyName(themes'[k].controlStyle)
                                  THEN themes'[k].controlStyle ELSE "light")]_vars

\* C30: after every operation of a constructed controller, the root's
\* data-control-style is the controlStyle of the active theme, or light when
\* the theme has none.
C30_ControlStyleIsActive ==
  (phase = "active" /\ currentTheme \in DOMAIN themes) =>
    rootControlStyle =
      (IF TruthyName(themes[currentTheme].controlStyle)
       THEN themes[currentTheme].controlStyle ELSE "light")

\* C31: the filter and the controlStyle a registry key has right after its
\* reset are those it has in a controller constructed next with the same
\* options over the same storage.
C31_ResetStableAcrossReload ==
  [][(lastOp'.name = "reset" /\ lastOp'.arg \in DOMAIN themes)
       => LET k == lastOp'.arg
              later == initialize(BootState(storedTheme', storedFilters', sysDark'), options)
          IN /\ ~later.threw
             /\ later.themes[k].filter = themes'[k].filter
             /\ later.themes[k].controlStyle = themes'[k].controlStyle]_vars

\* The tokens of a string: its maximal runs without a space.
RECURSIVE SplitTokens(_)
SplitTokens(s) ==
  IF s = <<>> THEN <<>>
  ELSE IF \A i \in 1..Len(s) : s[i] # " " THEN <<s>>
  ELSE LET i == CHOOSE j \in 1..Len(s) : s[j] = " " /\ \A h \in 1..(j - 1) : s[h] # " "
       IN <<SubSeq(s, 1, i - 1)>> \o SplitTokens(SubSeq(s, i + 1, Len(s)))

\* A number: digits with at most one dot.
IsNumeral(a) ==
  /\ \E i \in 1..Len(a) : a[i] \in DigitSet
  /\ \A i \in 1..Len(a) : a[i] \in DigDot
  /\ Cardinality({i \in 1..Len(a) : a[i] = "."}) <= 1

\* name(number) for one of the seven functions, hue-rotate with deg.
ValidToken(t) ==
  \E i \in 1..7 :
    LET name == <<sInvert, sHueRotate, sSaturate, sBrightness, sContrast, sSepia, sGrayscale>>[i]
        suffix == IF i = 2 THEN sDeg \o sClose ELSE sClose
        a == Len(name) + 2
        z == Len(t) - Len(suffix)
    IN /\ LitAt(t, name \o sOpen, 1)
       /\ z >= a
       /\ IsNumeral(SubSeq(t, a, z))
       /\ SubSeq(t, z + 1, Len(t)) = suffix

ValidFilter(f) ==
  \/ f = StrUndefined
  \/ f = <<>>
  \/ LET toks == SplitTokens(f) IN \A i \in 1..Len(toks) : ValidToken(toks[i])

\* C32: in every state of a controller constructed with the editor, over
\* stored override records whose fields are numbers (some of the seven may
\* be missing), the filter of every registry entry is empty or a chain,
\* joined by single spaces, of invert, hue-rotate, saturate, brightness,
\* contrast, sepia and grayscale, each with a number (hue-rotate: degrees).
C32_FilterValidity ==
  (phase = "active" /\ ed.exists) => \A k \in DOMAIN themes : ValidFilter(themes[k].filter)

\* C33: onAdd of a control with an editor, also after an onRemove of the same
\* control, throws nothing and leaves the editor with a panel in the map's
\* container, bound to its controller, so that the panel can be opened.
C33_ReAddWorks ==
  [][(lastOp'.name = "onAdd" /\ options.enableEditor /\ ed.exists)
       => /\ ~threw'
          /\ ed'.panel
          /\ ed'.inDom
          /\ ed'.themeControl
          /\ ed'.onKeyDown]_vars

(***************************************************************************)
(* The focus callbacks that openThemeSelector and openThemeEditor defer,   *)
(* run in any order with later clicks and with the control's removal       *)
(***************************************************************************)
TimerConfigs == {Config("none", "light", FALSE, TRUE, TRUE, TRUE)}

TimerInit ==
  /\ Boot(Null, AbsentStore, FALSE)
  /\ CodecIdle

TimerNext ==
  \/ \E c \in TimerConfigs : Construct(c)
  \/ OnAdd
  \/ OnRemove
  \/ ButtonClick
  \/ \E k \in {"dark"} : EditClick(k)
  \/ BackClick
  \/ CloseClick
  \/ \E t \in {"selector", "editor"} : TimerFire(t)

TimerSpec == TimerInit /\ [][TimerNext]_vars

\* C34: a deferred focus callback, whenever it runs (after a close, after a
\* change of view, after the control's removal), throws nothing, and when
\* it moves the focus it moves it to the first select button while the
\* panel holds the selector, or to the first slider while it holds an editor.
C34_FocusTimersSafe ==
  [][lastOp'.name = "timer"
       => /\ ~threw'
          /\ ed'.focus # ed.focus =>
               \/ ed'.focus = "select-btn" /\ ed.content = "selector"
               \/ ed'.focus = "slider" /\ ed.content = "editor"]_vars

C36_EditChangesOneField ==
  [][(lastOp'.name \in {"slider", "controlStyle"})
       => LET k == ed.contentKey
              had == storedFilters.map[k].kind = "rec"
              old == [g \in FilterKeySet |-> IF had THEN storedFilters.map[k][g] ELSE ed.curValues[g]]
              oldStyle == IF had THEN storedFilters.map[k].controlStyle ELSE ed.curStyle
              kept == IF lastOp'.name = "slider" THEN FilterKeySet \ {lastOp'.arg} ELSE FilterKeySet
              new == storedFilters'.map[k]
          IN /\ storedFilters'.kind = "map"
             /\ new.kind = "rec"
             /\ ed'.customFilters[k] = new
             /\ \A g \in kept : new[g] = old[g] /\ ed'.curValues[g] = ed.curValues[g]
             /\ \A g \in FilterKeySet \ kept : new[g] = ed'.curValues[g]
             /\ IF lastOp'.name = "slider"
                THEN new.controlStyle = oldStyle /\ ed'.curStyle = ed.curStyle
                ELSE new.controlStyle = lastOp'.arg /\ ed'.curStyle = lastOp'.arg
             /\ \A j \in AllKeys \ {k} :
                  /\ storedFilters'.map[j] = storedFilters.map[j]
                  /\ ed'.customFilters[j] = ed.customFilters[j]]_vars

\* C36 witness: after the saturate slider of 'dark' was moved to 0 and its
\* hue-rotate slider to 90, the record of 'dark' has both and still the
\* preset's invert, brightness and control style.
C36_Witness ==
  /\ lastOp = Op("slider", "hueRotate")
  /\ edits = 2
  /\ ed.contentKey = "dark"
  /\ storedFilters.kind = "map"
  /\ storedFilters.map["dark"] =
       OverrideRec("rec",
                   [invert |-> 1000, hueRotate |-> 90000, saturate |-> 0, brightness |-> 500,
                    contrast |-> 1000, sepia |-> 0, grayscale |-> 0],
                   "dark")
  /\ storedFilters.map["light"].kind = "none"

(***************************************************************************)
(* The selector's rows over stored records of 'dark' that equal the        *)
(* built-in preset, differ from it by less than the badge's tolerance, or  *)
(* differ by more                                                          *)
(***************************************************************************)
BadgeConfigs == {Config("none", "light", FALSE, TRUE, TRUE, TRUE)}

\* Stored records of 'dark': the preset's values with brightness 0.5 (the
\* preset's), 0.505 or 0.52, and control style dark (the preset's) or light.
BadgeStores ==
  {AbsentStore} \cup
  {MapStore([EmptyFilters EXCEPT !["dark"] =
               OverrideRec("rec", [parseFilterString(fDark) EXCEPT !.brightness = b], cs)]) :
     b \in {500, 505, 520}, cs \in {"dark", "light"}}

BadgeInit ==
  /\ \E sf \in BadgeStores : Boot(Null, sf, FALSE)
  /\ CodecIdle

BadgeNext ==
  \/ \E c \in BadgeConfigs : Construct(c)
  \/ OnAdd
  \/ ButtonClick
  \/ \E k \in {"dark", "custom"} : EditClick(k)
  \/ BackClick
  \/ \E c \in SliderChoices : SliderInput(c[1], c[2])
  \/ \E style \in {"light", "dark"} : ControlStyleClick(style)
  \/ ResetClick

BadgeSpec == BadgeInit /\ [][BadgeNext]_vars

\* C37: while the panel holds the selector, the row of a registry key k that
\* has a built-in default shows the custom badge exactly when k has an
\* override record of which a numeric field differs by more than 0.01 from
\* the field parsed from the built-in filter of k, or of which the control
\* style is not the built-in one; a key without a record (as after its
\* reset) has no badge.
C37_CustomBadge ==
  (phase = "active" /\ ed.panel /\ ed.content = "selector") =>
    \A k \in DOMAIN themes \cap DOMAIN DEFAULT_THEMES :
      LET r == ed.customFilters[k]
          d == parseFilterString(DEFAULT_THEMES[k].filter)
          dist == [f \in FilterKeySet |-> IF r[f] >= d[f] THEN r[f] - d[f] ELSE d[f] - r[f]]
      IN k \in ed.badges <=>
           /\ r.kind = "rec"
           /\ \/ \E f \in FilterKeySet : dist[f] > 10
              \/ r.controlStyle # DEFAULT_THEMES[k].controlStyle

\* C37 witness: the selector was rendered again after an edit of 'custom';
\* 'custom' has the badge, 'dark', whose stored record differs from the
\* preset by 0.005 in brightness only, has none.
C37_Witness ==
  /\ lastOp = Op("back", Null)
  /\ ed.content = "selector"
  /\ ed.customFilters["dark"].kind = "rec"
  /\ ed.customFilters["dark"].brightness = 505
  /\ ed.customFilters["dark"].controlStyle = "dark"
  /\ ed.customFilters["custom"].kind = "rec"
  /\ ed.badges = {"custom"}

(***************************************************************************)
(* The parser on its own: strings of space-separated tokens                *)
(***************************************************************************)
MaxTokens == 3

FnName ==
  [invert |-> sInvert, hueRotate |-> sHueRotate, saturate |-> sSaturate,
   brightness |-> sBrightness, contrast |-> sContrast, sepia |-> sSepia,
   grayscale |-> sGrayscale]
FnSuffix == [f \in FilterKeySet |-> IF f = "hueRotate" THEN sDeg \o sClose ELSE sClose]

\* Token t is, as a whole, function f applied to a numeral.
RecognisedFor(t, f) ==
  /\ ReMatchAt(t, FnName[f], FnSuffix[f], 1)
  /\ Len(t) = Len(FnName[f]) + 1 + RunLen(t, Len(FnName[f]) + 2, DigDot) + Len(FnSuffix[f])

Recognised(t) == \E f \in FilterKeySet : RecognisedFor(t, f)

\* invert(1) invert(0.5) hue-rotate(180deg) saturate(0.6) brightness(0.5), and
\* blur(2px) hue-rotate(90) x-invert(0.5) desaturate(0.2), none of which is a
\* function of the parser applied to a numeral.
TokenPool ==
  {Token(sInvert, 1000, sClose), Token(sInvert, 500, sClose),
   Token(sHueRotate, 180000, sDeg \o sClose), Token(sSaturate, 600, sClose),
   Token(sBrightness, 500, sClose),
   <<"b", "l", "u", "r", "(", "2", "p", "x", ")">>,
   Token(sHueRotate, 90000, sClose),
   <<"x", "-">> \o Token(sInvert, 500, sClose),
   <<"d", "e">> \o Token(sSaturate, 200, sClose)}

\* Sequences of at most MaxTokens distinct tokens with at most one token per
\* function.
TokenSeqs ==
  UNION {{q \in [1..n -> TokenPool] :
            /\ \A i, j \in 1..n : i # j => q[i] # q[j]
            /\ \A f \in FilterKeySet :
                 Cardinality({i \in 1..n : RecognisedFor(q[i], f)}) <= 1} : n \in 0..MaxTokens}

Reorderings(q) ==
  {[i \in 1..Len(q) |-> q[p[i]]] :
     p \in {r \in [1..Len(q) -> 1..Len(q)] : \A i, j \in 1..Len(q) : i # j => r[i] # r[j]}}

ParseInit ==
  /\ Boot(Null, AbsentStore, FALSE)
  /\ cPc = "tokens"
  /\ cValues = IdentityValues
  /\ \E q \in TokenSeqs : cString = Join(q)
  /\ cParsed = IdentityValues

ParseTokens ==
  /\ cPc = "tokens"
  /\ cParsed' = parseFilterString(cString)
  /\ cPc' = "tokensParsed"
  /\ UNCHANGED <<env, dom, ctl, ed, obs, cnt, cValues, cString>>

ParseNext == ParseTokens

ParseSpec == ParseInit /\ [][ParseNext]_vars

\* C38: the result of parsing a string of tokens is the same for every order
\* of the tokens; the field of a function equals the numeral of the token of
\* that function if the string has one, and the identity default otherwise,
\* whatever other tokens there are; the empty string gives the identity
\* record.
C38_ParseIndependent ==
  cPc = "tokensParsed" =>
    LET toks == SplitTokens(cString)
        own == [f \in FilterKeySet |-> {i \in 1..Len(toks) : RecognisedFor(toks[i], f)}]
        arg == [f \in FilterKeySet |->
                  IF own[f] = {} THEN <<>>
                  ELSE LET t == toks[CHOOSE i \in own[f] : TRUE]
                       IN SubSeq(t, Len(FnName[f]) + 2, Len(t) - Len(FnSuffix[f]))]
    IN /\ \A q \in Reorderings(toks) : parseFilterString(Join(q)) = cParsed
       /\ \A f \in FilterKeySet :
            cParsed[f] = IF own[f] = {} THEN IdentityValues[f] ELSE parseFloat(arg[f])
       /\ (cString = <<>> => cParsed = IdentityValues)

====
